---- MODULE Spec2Model ----
(***************************************************************************)
(* Model of the tmpmail monitoring core: the three provider adapters       *)
(* (MailTM and GuerrillaMail poll, XTempMail push + re-check), the shared  *)
(* BaseEmailService.stop_monitoring, and the orchestrator callback         *)
(* TempMailCLI.start_monitoring.handle_message; then the service registry, *)
(* the account operations and message normalisation of the adapters, the   *)
(* `new` command of the CLI and close().                                   *)
(*                                                                         *)
(* asyncio runs one coroutine at a time and switches only at an await that *)
(* really suspends.  The variable `running` names the coroutine that holds *)
(* the event loop between two suspension points ("none" when every         *)
(* coroutine is suspended); an action that resumes a coroutine requires    *)
(* running = "none", an action that continues it requires running = self.  *)
(***************************************************************************)
EXTENDS Integers, Sequences, FiniteSets, TLC

\* ---- bounds of the model ----
MaxId == 2          \* message ids are 1..MaxId
MaxDeliver == 2     \* delivery counters saturate here
MaxSessions == 2    \* monitor_messages calls per behaviour
MaxStops == 2       \* stop_monitoring calls per behaviour
MaxLink == 2        \* links are 1..MaxLink
MaxLiveId == 1      \* messages that arrive under FairSpec
MaxAccounts == 2    \* records save_account keeps (100 in the program)
MaxSaves == 4       \* save_account calls per behaviour
MaxOpen == 3        \* a call that opens a session is made below this many open ones

Ids == 1..MaxId
Links == 1..MaxLink

PollAdapters == {"mailtm", "guerrillamail"}
Adapters == PollAdapters \cup {"xtempmail"}

Min(a, b) == IF a < b THEN a ELSE b

VARIABLES
  adapter,            \* which adapter class the instance is
  client,             \* self.mailtm / self.session / self.email_instance is set
  stop_monitoring_set,\* self._stop_monitoring (asyncio.Event) is set
  is_listening,       \* XTempMailService._is_listening
  known_ids,          \* _known_message_ids / _processed_message_ids
  monitor_task,       \* state of the poll task (self._monitor_task); "none" = None
  listen_task,        \* state of XTempMail's listen_task
  recheck_task,       \* state of XTempMail's recheck_task
  monitor,            \* position of the monitor_messages coroutine
  stopper,            \* position of the stop_monitoring coroutine
  stop_session,       \* session whose task the suspended stop_monitoring awaits
  cancel_req,         \* task.cancel() was called and not yet delivered
  running,            \* coroutine holding the event loop
  batch,              \* messages the current for-loop still has to visit
  new_ids, \* poll tick: current_ids - known ids (empty on a first poll)
  tick_kind, \* poll tick: "first" or "later" branch ("none" before a fetch)
  mailbox,            \* messages at the provider
  events,             \* push events the XTempMail listener has not handled yet
  processed_ids,      \* start_monitoring's processed_ids
  \* ---- history of the session ----
  session,            \* number of monitor_messages calls so far
  stops,              \* number of stop_monitoring calls so far
  delivered,          \* callback invocations per id (saturating)
  invoked, \* ids the callback was invoked for in the current poll tick
  extract_count,      \* extract_links runs per id (saturating)
  extracted_links,    \* result of the last extract_links run per id
  handed,             \* links handed to _process_link per id
  callback_raised,    \* the callback has raised in this session
  first_batch,        \* ids of the first non-empty fetch of the session
  first_state,        \* "none", "active" (being delivered), "done"
  stop_called,        \* stop_monitoring was called since the session began
  outer_cancelled,    \* monitor_messages was cancelled from outside
  fatal,              \* monitor_messages ended with an escaping exception
  stop_done,          \* a stop_monitoring call of this session has returned
  stop_raised,        \* a stop_monitoring call let an exception escape
  consecutive_stops,  \* completed stop_monitoring calls with nothing in between
  failed_at,          \* <<the mailbox when a fetch of the session first failed>>
  \* ---- the service registry and single adapter operations ----
  registry,           \* ServiceRegistry._services
  last_reg,           \* arguments of the last ServiceRegistry.register call
  op,                 \* the last single operation applied, with its result
  \* ---- the `new` command (TempMailCLI.new_account) ----
  cli,                \* position of the command coroutine
  service_arg,        \* args.service
  timeout_arg,        \* args.timeout > 0
  created,            \* outcome of create_account: "none", "ok", "failed"
  saved,              \* storage.save_account was called
  reported,           \* what the command printed "Error: ..." for ("none" if nothing)
  pending,            \* exception start_monitoring lets through ("none" if none)
  escaped,            \* an exception escaped new_account
  cli_stops,          \* stop_monitoring calls made by start_monitoring
  interrupted,        \* Ctrl+C has cancelled the main task during monitoring
  \* ---- close() ----
  closer,             \* position of the close coroutine
  closed,             \* the last call made on the adapter is a returned close()
  open_sessions,      \* aiohttp sessions GuerrillaMail opened and has not closed
  \* ---- AccountStorage ----
  accounts,           \* the records in accounts.json, oldest first
  saves               \* every account given to save_account, in call order

adapterVars == <<adapter, client, stop_monitoring_set, is_listening, known_ids,
                 monitor_task, listen_task, recheck_task>>
procVars == <<monitor, stopper, stop_session, cancel_req, running, batch,
              new_ids, tick_kind>>
envVars == <<mailbox, events>>
cliVars == <<processed_ids, delivered, extract_count, extracted_links, handed,
             callback_raised>>
histVars == <<session, stops, invoked, first_batch, first_state, stop_called,
              outer_cancelled, fatal, stop_done, stop_raised, consecutive_stops,
              failed_at>>
opsVars == <<registry, last_reg, op>>
commandVars == <<cli, service_arg, timeout_arg, created, saved, reported,
                 pending, escaped, cli_stops, interrupted>>
closeVars == <<closer, closed, open_sessions>>
storeVars == <<accounts, saves>>
cmdVars == <<opsVars, commandVars, closeVars, storeVars>>
vars == <<adapterVars, procVars, envVars, cliVars, histVars, cmdVars>>

Tasks == {"monitor", "poll", "listen", "recheck"}
Terminated == {"done", "failed", "cancelled"}
NoCancel == [t \in Tasks |-> FALSE]

\* the state a caller of the adapter can observe
AdapterState == <<stop_monitoring_set, is_listening, known_ids, monitor_task,
                  listen_task, recheck_task, cancel_req, client>>

\* ---------------------------------------------------------------------
\* pure helpers
\* ---------------------------------------------------------------------
RECURSIVE SetToSeq(_)
\* get_messages: the mailbox in the provider's order (ascending id)
SetToSeq(S) ==
  IF S = {} THEN <<>>
  ELSE LET m == CHOOSE x \in S : \A y \in S : x <= y
       IN <<m>> \o SetToSeq(S \ {m})

SeqIds(s) == {s[i] : i \in 1..Len(s)}

RECURSIVE FilterMut(_, _)
FilterMut(s, S) ==
  IF s = <<>> THEN <<>>
  ELSE IF Head(s) \in S THEN FilterMut(Tail(s), S) \o <<Head(s)>>
       ELSE FilterMut(Tail(s), S)

\* [m for m in messages if m.id in S]
RECURSIVE Filter(_, _)
Filter(s, S) ==
  IF s = <<>> THEN <<>>
  ELSE IF Head(s) \in S THEN <<Head(s)>> \o Filter(Tail(s), S)
       ELSE Filter(Tail(s), S)

\* what extract_links can do on a message: raise (bad pattern, non-string
\* body) or return a duplicate-free list of links
ExtractResults ==
  { [raised |-> TRUE,  links |-> <<>>],
    [raised |-> FALSE, links |-> <<>>],
    [raised |-> FALSE, links |-> <<MaxLink, 1>>] }

\* get_messages swallows a failed request and returns []: the failure shows
\* when the provider holds messages and none is returned
FetchFailed(messages, box) == messages = <<>> /\ box # {}

\* while not self._stop_monitoring.is_set()
PollLoopContinues(flag) == ~flag

XtLoopContinuesMut(flag, listening) == TRUE
\* while not self._stop_monitoring.is_set() and self._is_listening
XtLoopContinues(flag, listening) == ~flag /\ listening

AlreadyProcessedMut(m, ids) == FALSE
\* if message.id in processed_ids: return
AlreadyProcessed(m, ids) == m \in ids

FirstLinkMut(links) == links[Len(links)]
\* links[0]
FirstLink(links) == links[1]

PollAfterErrorMut == "done"
\* except Exception: await asyncio.sleep(interval)  (the loop goes on)
PollAfterError == "err_sleeping"

ClearMut(ids) == ids
\* self._known_message_ids.clear() / self._processed_message_ids.clear()
Clear(ids) == {}

RecheckAfterErrorMut == "failed"
\* _periodic_recheck: except Exception: await asyncio.sleep(interval)
RecheckAfterError == "err_sleeping"

StopAwaitRaisesMut(task) == task = "cancelled"
\* try: await self._monitor_task / except asyncio.CancelledError: pass
StopAwaitRaises(task) == FALSE

RestartListenerMut(task) == task
\* if listen_task.done(): ... listen_task = asyncio.create_task(self._run_listener())
\* (in the try branch after a return, in the except branch after a failure)
\* ("restarted" is a task created here that has not run yet)
RestartListener(task) ==
  IF task \in {"done", "failed"} THEN "restarted" ELSE task

\* ---------------------------------------------------------------------
\* ServiceRegistry
\* ---------------------------------------------------------------------
\* a service name is its lower-case text and whether it is written with
\* capital letters
Keys == {"xtempmail", "mailtm", "guerrillamail", "tempmail.plus"}
Names == [text : Keys, caps : BOOLEAN]
Name(text) == [text |-> text, caps |-> FALSE]

LowerMut(name) == IF name.caps THEN "?" ELSE name.text
\* name.lower()
Lower(name) == name.text

\* getattr(service_class, "SERVICE_NAME", "").lower(): the adapter classes
\* are named by their SERVICE_NAME
ServiceName(cls) == cls

\* cls._services[key] = service_class
Put(reg, key, cls) ==
  [k \in DOMAIN reg \cup {key} |-> IF k = key THEN cls ELSE reg[k]]

\* _services: Dict[str, Type] = {}
EmptyRegistry == [k \in {} |-> "none"]

RegisterMut(reg, name, cls) == Put(reg, Lower(name), cls)
\* ServiceRegistry.register
Register(reg, name, cls) ==
  LET r == Put(reg, Lower(name), cls)
  IN IF ServiceName(cls) # "" /\ ServiceName(cls) # Lower(name)
       THEN Put(r, ServiceName(cls), cls)
       ELSE r

\* ServiceRegistry.get_service: cls._services.get(name.lower())
GetService(reg, name) ==
  IF Lower(name) \in DOMAIN reg THEN reg[Lower(name)] ELSE "none"

\* the registrations made when config.py is imported
ModuleRegistry ==
  Register(Register(EmptyRegistry, Name("xtempmail"), "xtempmail"),
           Name("mailtm"), "mailtm")

\* ---------------------------------------------------------------------
\* initial state: a freshly constructed adapter and CLI, nothing monitored
\* ---------------------------------------------------------------------
\* BaseEmailService.__init__ and the subclass constructors, an empty mailbox
\* and empty histories
FreshAdapter ==
  /\ stop_monitoring_set = FALSE
  /\ is_listening = FALSE
  /\ known_ids = {}
  /\ monitor_task = "none"
  /\ listen_task = "none"
  /\ recheck_task = "none"
  /\ monitor = "idle"
  /\ stopper = "idle"
  /\ stop_session = 0
  /\ cancel_req = NoCancel
  /\ running = "none"
  /\ batch = <<>>
  /\ new_ids = {}
  /\ tick_kind = "none"
  /\ mailbox = {}
  /\ events = {}
  /\ processed_ids = {}
  /\ session = 0
  /\ stops = 0
  /\ delivered = [m \in Ids |-> 0]
  /\ invoked = {}
  /\ extract_count = [m \in Ids |-> 0]
  /\ extracted_links = [m \in Ids |-> <<>>]
  /\ handed = [m \in Ids |-> <<>>]
  /\ callback_raised = FALSE
  /\ first_batch = {}
  /\ first_state = "none"
  /\ stop_called = FALSE
  /\ outer_cancelled = FALSE
  /\ fatal = FALSE
  /\ stop_done = FALSE
  /\ stop_raised = FALSE
  /\ consecutive_stops = 0
  /\ failed_at = <<>>

\* no command is running and no single operation was applied
NoCommand ==
  /\ registry = ModuleRegistry
  /\ last_reg = <<>>
  /\ op = [kind |-> "none"]
  /\ cli = "none"
  /\ service_arg = Name("none")
  /\ timeout_arg = FALSE
  /\ created = "none"
  /\ saved = FALSE
  /\ reported = "none"
  /\ pending = "none"
  /\ escaped = FALSE
  /\ cli_stops = 0
  /\ interrupted = FALSE
  /\ closer = "idle"
  /\ closed = FALSE
  /\ open_sessions = 0
  /\ accounts = <<>>
  /\ saves = <<>>

\* an adapter of any class, with or without a provider client (create_account
\* or restore_account may have run), used directly by its callers
Init ==
  /\ adapter \in Adapters
  /\ client \in BOOLEAN
  /\ FreshAdapter
  /\ NoCommand

\* every step that is not a stop_monitoring call ends a run of stop calls
NotAStop == consecutive_stops' = 0 /\ UNCHANGED <<stops, stop_raised>>

\* ---------------------------------------------------------------------
\* the callback: TempMailCLI.start_monitoring.handle_message
\* out = "return": returned without suspending; "raise": raised;
\* out = "await": suspended in _process_link (browser launch)
\* ---------------------------------------------------------------------
HandleMessage(m, res, out) ==
  /\ delivered' = [delivered EXCEPT ![m] = Min(@ + 1, MaxDeliver)]
  /\ IF AlreadyProcessed(m, processed_ids)
       THEN /\ out = "return"
            /\ UNCHANGED <<processed_ids, extract_count, extracted_links, handed,
                           callback_raised>>
       ELSE /\ processed_ids' = processed_ids \cup {m}
            /\ callback_raised' = (callback_raised \/ res.raised)
            /\ extract_count' = [extract_count EXCEPT ![m] = Min(@ + 1, MaxDeliver)]
            /\ extracted_links' = [extracted_links EXCEPT ![m] = res.links]
            /\ IF res.raised
                 THEN out = "raise" /\ UNCHANGED handed
                 ELSE IF res.links = <<>>
                   THEN out = "return" /\ UNCHANGED handed
                   ELSE /\ out = "await"
                        /\ handed' = [handed EXCEPT ![m] =
                             IF Len(@) < MaxDeliver
                               THEN Append(@, FirstLink(res.links)) ELSE @]

Outcomes == {"return", "raise", "await"}

\* bookkeeping of the first non-empty fetch of a session
NoteFirstFetch(messages) ==
  IF first_state = "none" /\ messages # <<>>
    THEN first_batch' = SeqIds(messages) /\ first_state' = "active"
    ELSE UNCHANGED <<first_batch, first_state>>

EndFirstBatch ==
  first_state' = IF first_state = "active" THEN "done" ELSE first_state


\* history and per-session state that start_monitoring / monitor_messages reset
SessionReset ==
  /\ processed_ids' = {}
  /\ delivered' = [m \in Ids |-> 0]
  /\ extract_count' = [m \in Ids |-> 0]
  /\ extracted_links' = [m \in Ids |-> <<>>]
  /\ handed' = [m \in Ids |-> <<>>]
  /\ callback_raised' = FALSE
  /\ invoked' = {}
  /\ new_ids' = {}
  /\ tick_kind' = "none"
  /\ stop_called' = FALSE
  /\ outer_cancelled' = FALSE
  /\ stop_done' = FALSE
  /\ failed_at' = <<>>
  /\ session' = session + 1

\* the session begins with the call; a call that asyncio.wait_for or
\* create_task wrapped in a task began when the task was created
BeginSession ==
  IF monitor = "scheduled"
    THEN UNCHANGED <<cliVars, invoked, new_ids, tick_kind, stop_called,
                     outer_cancelled, stop_done, failed_at, session>>
    ELSE SessionReset

\* monitor_messages has begun to run and has not returned
MonitorActive == monitor \notin {"idle", "returned", "scheduled"}

\* ---------------------------------------------------------------------
\* environment: the provider and the callers of the adapter
\* ---------------------------------------------------------------------
\* a new message reaches the mailbox; XTempMail's push event for it may be
\* raised or missed
Arrive(m) ==
  /\ running = "none"
  /\ m \notin mailbox
  /\ mailbox' = mailbox \cup {m}
  /\ \/ events' = events
     \/ adapter = "xtempmail" /\ events' = events \cup {m}
  /\ NotAStop
  /\ UNCHANGED <<adapterVars, procVars, cliVars, session, invoked, first_batch,
                 first_state, stop_called, outer_cancelled, fatal, failed_at,
                 cmdVars, stop_done>>

\* asyncio.wait_for(monitor_messages(...), timeout) expires: the coroutine is
\* cancelled, and with it the task it is awaiting
WaitForTimeout ==
  /\ running = "none"
  /\ MonitorActive
  /\ ~outer_cancelled
  /\ outer_cancelled' = TRUE
  /\ cancel_req' =
       [cancel_req EXCEPT
          !["monitor"] = TRUE,
          !["poll"] = @ \/ (monitor = "awaiting" /\ monitor_task \notin Terminated),
          !["listen"] = @ \/ (monitor = "cleanup_listen" /\ listen_task \notin Terminated),
          !["recheck"] = @ \/ (monitor = "cleanup_recheck" /\ recheck_task \notin Terminated)]
  /\ NotAStop
  /\ UNCHANGED <<adapterVars, monitor, stopper, stop_session, running, batch,
                 new_ids, tick_kind, envVars, cliVars, session, invoked,
                 first_batch, first_state, stop_called, fatal, failed_at,
                 stop_done>>

OuterCancel == WaitForTimeout /\ UNCHANGED cmdVars

\* the caller wraps the monitor_messages call in a task (asyncio.wait_for
\* in start_monitoring, or create_task); the body runs at the task's first
\* step
MonitorScheduled ==
  /\ running = "none"
  /\ monitor \in {"idle", "returned"}
  /\ session < MaxSessions
  /\ SessionReset
  /\ monitor' = "scheduled"
  /\ NotAStop
  /\ UNCHANGED <<adapterVars, stopper, stop_session, cancel_req, running,
                 batch, envVars, first_batch, first_state, fatal, cmdVars>>

\* ---------------------------------------------------------------------
\* MailTMService / GuerrillaMailService.monitor_messages
\* ---------------------------------------------------------------------
MonitorMessagesPoll ==
  /\ adapter \in PollAdapters
  /\ running = "none"
  /\ monitor \in {"idle", "returned", "scheduled"}
  /\ monitor = "scheduled" \/ session < MaxSessions
  /\ known_ids' = Clear(known_ids)
  /\ stop_monitoring_set' = FALSE
  /\ monitor_task' = "created"
  /\ cancel_req' = [cancel_req EXCEPT !["poll"] = FALSE, !["monitor"] = FALSE]
  /\ monitor' = "awaiting"
  /\ batch' = <<>>
  /\ first_batch' = {}
  /\ first_state' = "none"
  /\ fatal' = FALSE
  /\ BeginSession
  /\ NotAStop
  \* a stop_monitoring call still awaiting the task of the session before
  \* is overlapped by this call, which replaces self._monitor_task
  /\ stop_session' = IF monitor = "scheduled" /\ stopper = "awaiting"
                         /\ stop_session = session
                        THEN session - 1 ELSE stop_session
  /\ UNCHANGED <<adapter, client, is_listening, listen_task, recheck_task,
                 stopper, running, envVars>>

MonitorStartPoll == MonitorMessagesPoll /\ UNCHANGED cmdVars

\* the poll task runs for the first time: loop test, then get_messages
PollStart ==
  /\ running = "none"
  /\ monitor_task = "created"
  /\ ~cancel_req["poll"]
  /\ monitor_task' = IF PollLoopContinues(stop_monitoring_set)
                       THEN "fetching" ELSE "done"
  /\ NotAStop
  /\ UNCHANGED <<adapter, client, stop_monitoring_set, is_listening, known_ids,
                 listen_task, recheck_task, procVars, envVars, cliVars,
                 session, invoked, first_batch, first_state, stop_called,
                 outer_cancelled, fatal, failed_at, cmdVars, stop_done>>

\* get_messages returns: the mailbox, or [] when the request failed (both
\* adapters swallow request errors); then the first-poll / later-poll branch
PollFetchReturn ==
  /\ running = "none"
  /\ monitor_task = "fetching"
  /\ ~cancel_req["poll"]
  /\ \E messages \in {SetToSeq(mailbox), <<>>} :
       /\ failed_at' = IF FetchFailed(messages, mailbox) /\ failed_at = <<>>
                         THEN <<mailbox>> ELSE failed_at
       /\ IF known_ids = {}
            THEN /\ known_ids' = SeqIds(messages)
                 /\ batch' = messages
                 /\ new_ids' = {}
                 /\ tick_kind' = "first"
            ELSE /\ known_ids' = known_ids
                 /\ new_ids' = SeqIds(messages) \ known_ids
                 /\ batch' = Filter(messages, SeqIds(messages) \ known_ids)
                 /\ tick_kind' = "later"
       /\ NoteFirstFetch(messages)
  /\ client' = TRUE
  /\ invoked' = {}
  /\ monitor_task' = "delivering"
  /\ running' = "poll"
  /\ NotAStop
  /\ UNCHANGED <<adapter, stop_monitoring_set, is_listening, listen_task,
                 recheck_task, monitor, stopper, stop_session, cancel_req,
                 envVars, cliVars, session, stop_called, outer_cancelled,
                 fatal, cmdVars, stop_done>>

\* MailTM only: get_messages calls restore_account outside its try block
\* when self.mailtm is None; a failure there reaches the loop's handler
PollFetchRaises ==
  /\ running = "none"
  /\ monitor_task = "fetching"
  /\ ~cancel_req["poll"]
  /\ adapter = "mailtm"
  /\ ~client
  /\ client' = TRUE
  /\ monitor_task' = PollAfterError
  /\ failed_at' = IF failed_at = <<>> THEN <<mailbox>> ELSE failed_at
  /\ NotAStop
  /\ UNCHANGED <<adapter, stop_monitoring_set, is_listening, known_ids,
                 listen_task, recheck_task, procVars, envVars, cliVars,
                 session, invoked, first_batch, first_state, stop_called,
                 outer_cancelled, fatal, cmdVars, stop_done>>

\* one iteration of `for msg in messages`, or the end of the loop
PollDeliver ==
  /\ running = "poll"
  /\ monitor_task = "delivering"
  /\ IF batch = <<>>
       THEN /\ known_ids' = known_ids \cup new_ids
            /\ monitor_task' = "sleeping"
            /\ running' = "none"
            /\ EndFirstBatch
            /\ UNCHANGED <<batch, invoked, cliVars>>
       ELSE \E res \in ExtractResults, out \in Outcomes :
            /\ HandleMessage(Head(batch), res, out)
            /\ invoked' = invoked \cup {Head(batch)}
            /\ known_ids' = known_ids
            /\ CASE out = "return" ->
                      /\ batch' = Tail(batch)
                      /\ UNCHANGED <<monitor_task, running, first_state>>
                 [] out = "await" ->
                      /\ batch' = Tail(batch)
                      /\ monitor_task' = "in_callback"
                      /\ running' = "none"
                      /\ UNCHANGED first_state
                 [] out = "raise" ->
                      /\ batch' = <<>>
                      /\ monitor_task' = PollAfterError
                      /\ running' = "none"
                      /\ EndFirstBatch
  /\ NotAStop
  /\ UNCHANGED <<adapter, client, stop_monitoring_set, is_listening,
                 listen_task, recheck_task, monitor, stopper, stop_session,
                 cancel_req, new_ids, tick_kind, envVars, session, first_batch,
                 stop_called, outer_cancelled, fatal, failed_at, cmdVars,
                 stop_done>>

\* the callback's await (_process_link) completes
PollCallbackReturn ==
  /\ running = "none"
  /\ monitor_task = "in_callback"
  /\ ~cancel_req["poll"]
  /\ monitor_task' = "delivering"
  /\ running' = "poll"
  /\ NotAStop
  /\ UNCHANGED <<adapter, client, stop_monitoring_set, is_listening, known_ids,
                 listen_task, recheck_task, monitor, stopper, stop_session,
                 cancel_req, batch, new_ids, tick_kind, envVars, cliVars,
                 session, invoked, first_batch, first_state, stop_called,
                 outer_cancelled, fatal, failed_at, cmdVars, stop_done>>

\* asyncio.sleep(interval) ends: loop test, then the next get_messages
PollWake ==
  /\ running = "none"
  /\ monitor_task \in {"sleeping", "err_sleeping"}
  /\ ~cancel_req["poll"]
  /\ monitor_task' = IF PollLoopContinues(stop_monitoring_set)
                       THEN "fetching" ELSE "done"
  /\ NotAStop
  /\ UNCHANGED <<adapter, client, stop_monitoring_set, is_listening, known_ids,
                 listen_task, recheck_task, procVars, envVars, cliVars,
                 session, invoked, first_batch, first_state, stop_called,
                 outer_cancelled, fatal, failed_at, cmdVars, stop_done>>

\* CancelledError is thrown into the poll task at its await and re-raised
PollCancelled ==
  /\ running = "none"
  /\ monitor_task \in {"created", "fetching", "in_callback", "sleeping",
                       "err_sleeping"}
  /\ cancel_req["poll"]
  /\ monitor_task' = "cancelled"
  /\ cancel_req' = [cancel_req EXCEPT !["poll"] = FALSE]
  /\ batch' = <<>>
  /\ NotAStop
  /\ UNCHANGED <<adapter, client, stop_monitoring_set, is_listening, known_ids,
                 listen_task, recheck_task, monitor, stopper, stop_session,
                 running, new_ids, tick_kind, envVars, cliVars, session,
                 invoked, first_batch, first_state, stop_called,
                 outer_cancelled, fatal, failed_at, cmdVars, stop_done>>

\* `await self._monitor_task` ends; CancelledError is swallowed
MonitorPollReturn ==
  /\ running = "none"
  /\ monitor = "awaiting"
  /\ monitor_task \in Terminated
  /\ monitor' = "returned"
  /\ cancel_req' = [cancel_req EXCEPT !["monitor"] = FALSE]
  /\ NotAStop
  /\ UNCHANGED <<adapterVars, stopper, stop_session, running, batch, new_ids,
                 tick_kind, envVars, cliVars, session, invoked, first_batch,
                 first_state, stop_called, outer_cancelled, fatal, failed_at,
                 cmdVars, stop_done>>

\* ---------------------------------------------------------------------
\* stop_monitoring (BaseEmailService and the XTempMailService override)
\* ---------------------------------------------------------------------
StopMonitoring ==
  /\ running = "none"
  /\ stopper = "idle"
  /\ stops < MaxStops
  /\ stops' = stops + 1
  /\ stop_monitoring_set' = TRUE
  /\ stop_called' = (stop_called \/ MonitorActive)
  /\ is_listening' = IF adapter = "xtempmail" THEN FALSE ELSE is_listening
  /\ IF adapter \in PollAdapters /\ monitor_task # "none"
       THEN /\ cancel_req' = [cancel_req EXCEPT
                 !["poll"] = @ \/ monitor_task \notin Terminated]
            /\ stopper' = "awaiting"
            /\ stop_session' = session
            /\ UNCHANGED <<stop_done, consecutive_stops>>
       ELSE /\ stop_done' = TRUE
            /\ consecutive_stops' = Min(consecutive_stops + 1, MaxStops)
            /\ UNCHANGED <<cancel_req, stopper, stop_session>>
  /\ UNCHANGED <<adapter, client, known_ids, monitor_task, listen_task,
                 recheck_task, monitor, running, batch, new_ids, tick_kind,
                 envVars, cliVars, session, invoked, first_batch, first_state,
                 outer_cancelled, fatal, failed_at, stop_raised>>

StopCall == StopMonitoring /\ UNCHANGED cmdVars

\* `await self._monitor_task` in stop_monitoring ends
StopMonitoringReturns ==
  /\ running = "none"
  /\ stopper = "awaiting"
  /\ session > stop_session \/ monitor_task \in Terminated
  /\ stopper' = "idle"
  /\ stop_session' = 0
  /\ stop_raised' = (stop_raised \/
       StopAwaitRaises(IF session > stop_session THEN "cancelled"
                       ELSE monitor_task))
  /\ stop_done' = (stop_done \/ session = stop_session)
  \* a call that a new monitor_messages call overlapped starts no run
  /\ consecutive_stops' = IF session = stop_session
                            THEN Min(consecutive_stops + 1, MaxStops) ELSE 0
  /\ UNCHANGED <<adapterVars, monitor, cancel_req, running, batch, new_ids,
                 tick_kind, envVars, cliVars, session, stops, invoked,
                 first_batch, first_state, stop_called, outer_cancelled, fatal,
                 failed_at>>

StopReturn == StopMonitoringReturns /\ UNCHANGED cmdVars

\* ---------------------------------------------------------------------
\* XTempMailService.monitor_messages and its three activities
\* ---------------------------------------------------------------------
\* the monitor loop's test, and the entry into the `finally` block
XtLoopOrCleanup(flag, listening) ==
  IF XtLoopContinues(flag, listening) THEN "loop_sleep" ELSE "cleanup"

\* the call runs up to _process_existing_messages' get_messages: restore when
\* email_instance is None (a failure escapes), clear the flag, reset the ids
MonitorMessagesXt ==
  /\ adapter = "xtempmail"
  /\ running = "none"
  /\ monitor \in {"idle", "returned", "scheduled"}
  /\ monitor = "scheduled" \/ session < MaxSessions
  /\ BeginSession
  /\ NotAStop
  /\ cancel_req' = NoCancel
  /\ \/ /\ ~client
        /\ fatal' = TRUE
        /\ monitor' = "returned"
        /\ first_batch' = {}
        /\ first_state' = "none"
        /\ UNCHANGED <<client, stop_monitoring_set, is_listening, known_ids,
                       batch, running>>
     \/ /\ client' = TRUE
        /\ fatal' = FALSE
        /\ stop_monitoring_set' = FALSE
        /\ is_listening' = TRUE
        /\ known_ids' = Clear(known_ids)
        /\ \E messages \in {SetToSeq(mailbox), <<>>} :
             /\ batch' = messages
             /\ first_batch' = SeqIds(messages)
             /\ first_state' = IF messages = <<>> THEN "none" ELSE "active"
        /\ monitor' = "flush"
        /\ running' = "monitor"
  /\ UNCHANGED <<adapter, monitor_task, listen_task, recheck_task, stopper,
                 stop_session, envVars>>

MonitorStartXt == MonitorMessagesXt /\ UNCHANGED cmdVars

\* one iteration of _process_existing_messages' loop, or its end followed by
\* the handler registration, the two create_task calls and the loop test
MonitorFlush ==
  /\ running = "monitor"
  /\ monitor = "flush"
  /\ IF batch = <<>>
       THEN /\ listen_task' = "created"
            /\ recheck_task' = "created"
            /\ monitor' = XtLoopOrCleanup(stop_monitoring_set, is_listening)
            /\ running' = IF XtLoopContinues(stop_monitoring_set, is_listening)
                            THEN "none" ELSE "monitor"
            /\ EndFirstBatch
            /\ UNCHANGED <<batch, known_ids, cliVars>>
       ELSE IF Head(batch) \in known_ids
         THEN /\ batch' = Tail(batch)
              /\ UNCHANGED <<listen_task, recheck_task, monitor, running,
                             known_ids, cliVars, first_state>>
         ELSE \E res \in ExtractResults, out \in Outcomes :
              /\ known_ids' = known_ids \cup {Head(batch)}
              /\ HandleMessage(Head(batch), res, out)
              /\ UNCHANGED <<listen_task, recheck_task>>
              /\ CASE out = "return" ->
                        /\ batch' = Tail(batch)
                        /\ UNCHANGED <<monitor, running, first_state>>
                   [] out = "await" ->
                        /\ batch' = Tail(batch)
                        /\ monitor' = "flush_cb"
                        /\ running' = "none"
                        /\ UNCHANGED first_state
                   [] out = "raise" ->
                        /\ batch' = <<>>
                        /\ UNCHANGED <<monitor, running, first_state>>
  /\ NotAStop
  /\ UNCHANGED <<adapter, client, stop_monitoring_set, is_listening,
                 monitor_task, stopper, stop_session, cancel_req, new_ids,
                 tick_kind, envVars, session, invoked, first_batch,
                 stop_called, outer_cancelled, fatal, failed_at, cmdVars,
                 stop_done>>

\* the flush's callback await completes, or CancelledError is thrown into it
\* and leaves monitor_messages (the flush runs before the try block)
MonitorFlushResume ==
  /\ running = "none"
  /\ monitor = "flush_cb"
  /\ IF cancel_req["monitor"]
       THEN /\ monitor' = "returned"
            /\ batch' = <<>>
            /\ cancel_req' = [cancel_req EXCEPT !["monitor"] = FALSE]
            /\ UNCHANGED running
       ELSE /\ monitor' = "flush"
            /\ running' = "monitor"
            /\ UNCHANGED <<batch, cancel_req>>
  /\ NotAStop
  /\ UNCHANGED <<adapterVars, stopper, stop_session, new_ids, tick_kind,
                 envVars, cliVars, session, invoked, first_batch, first_state,
                 stop_called, outer_cancelled, fatal, failed_at, cmdVars,
                 stop_done>>

\* asyncio.sleep(0.5) ends (or is cancelled): restart a dead listener, test
\* the loop condition
MonitorLoopWake ==
  /\ running = "none"
  /\ monitor = "loop_sleep"
  /\ IF cancel_req["monitor"]
       THEN /\ monitor' = "cleanup"
            /\ running' = "monitor"
            /\ cancel_req' = [cancel_req EXCEPT !["monitor"] = FALSE]
            /\ UNCHANGED listen_task
       ELSE /\ listen_task' = RestartListener(listen_task)
            /\ monitor' = XtLoopOrCleanup(stop_monitoring_set, is_listening)
            /\ running' = IF XtLoopContinues(stop_monitoring_set, is_listening)
                            THEN "none" ELSE "monitor"
            /\ UNCHANGED cancel_req
  /\ NotAStop
  /\ UNCHANGED <<adapter, client, stop_monitoring_set, is_listening, known_ids,
                 monitor_task, recheck_task, stopper, stop_session, batch,
                 new_ids, tick_kind, envVars, cliVars, session, invoked,
                 first_batch, first_state, stop_called, outer_cancelled, fatal,
                 failed_at, cmdVars, stop_done>>

\* finally: _is_listening = False, then cancel and await each live task
MonitorCleanup ==
  /\ running = "monitor"
  /\ monitor \in {"cleanup", "cleanup2"}
  /\ is_listening' = FALSE
  /\ IF monitor = "cleanup"
       THEN IF listen_task \in Terminated
              THEN /\ monitor' = "cleanup2"
                   /\ UNCHANGED <<running, cancel_req>>
              ELSE /\ cancel_req' = [cancel_req EXCEPT !["listen"] = TRUE]
                   /\ monitor' = "cleanup_listen"
                   /\ running' = "none"
       ELSE IF recheck_task \in Terminated
              THEN /\ monitor' = "returned"
                   /\ running' = "none"
                   /\ UNCHANGED cancel_req
              ELSE /\ cancel_req' = [cancel_req EXCEPT !["recheck"] = TRUE]
                   /\ monitor' = "cleanup_recheck"
                   /\ running' = "none"
  /\ NotAStop
  /\ UNCHANGED <<adapter, client, stop_monitoring_set, known_ids, monitor_task,
                 listen_task, recheck_task, stopper, stop_session, batch,
                 new_ids, tick_kind, envVars, cliVars, session, invoked,
                 first_batch, first_state, stop_called, outer_cancelled,
                 fatal, failed_at, cmdVars,
                 stop_done>>

\* `await task` in the finally block ends (whatever the task's outcome)
MonitorCleanupResume ==
  /\ running = "none"
  /\ \/ /\ monitor = "cleanup_listen"
        /\ listen_task \in Terminated
        /\ monitor' = "cleanup2"
        /\ running' = "monitor"
     \/ /\ monitor = "cleanup_recheck"
        /\ recheck_task \in Terminated
        /\ monitor' = "returned"
        /\ running' = "none"
  /\ cancel_req' = [cancel_req EXCEPT !["monitor"] = FALSE]
  /\ NotAStop
  /\ UNCHANGED <<adapterVars, stopper, stop_session, batch, new_ids, tick_kind,
                 envVars, cliVars, session, invoked, first_batch, first_state,
                 stop_called, outer_cancelled, fatal, failed_at, cmdVars,
                 stop_done>>

\* _run_listener starts and suspends in email_instance.listen(); a task
\* cancelled before its first step never runs
ListenStart ==
  /\ running = "none"
  /\ listen_task \in {"created", "restarted"}
  /\ listen_task' = IF cancel_req["listen"] THEN "cancelled" ELSE "listening"
  /\ cancel_req' = [cancel_req EXCEPT !["listen"] = FALSE]
  /\ NotAStop
  /\ UNCHANGED <<adapter, client, stop_monitoring_set, is_listening, known_ids,
                 monitor_task, recheck_task, monitor, stopper, stop_session,
                 running, batch, new_ids, tick_kind, envVars, cliVars, session,
                 invoked, first_batch, first_state, stop_called,
                 outer_cancelled, fatal, failed_at, cmdVars, stop_done>>

\* a push event arrives: handle_new_message
ListenEvent(m) ==
  /\ running = "none"
  /\ listen_task = "listening"
  /\ ~cancel_req["listen"]
  /\ m \in events
  /\ events' = events \ {m}
  /\ IF m \in known_ids
       THEN UNCHANGED <<known_ids, listen_task, cliVars>>
       ELSE \E res \in ExtractResults, out \in Outcomes :
            /\ known_ids' = known_ids \cup {m}
            /\ HandleMessage(m, res, out)
            /\ listen_task' = IF out = "await" THEN "in_callback"
                              ELSE "listening"
  /\ NotAStop
  /\ UNCHANGED <<adapter, client, stop_monitoring_set, is_listening,
                 monitor_task, recheck_task, procVars, mailbox, session,
                 invoked, first_batch, first_state, stop_called,
                 outer_cancelled, fatal, failed_at, cmdVars, stop_done>>

\* the handler's callback await completes, or the task is cancelled at its
\* await (CancelledError is re-raised by _run_listener)
ListenResume ==
  /\ running = "none"
  /\ \/ /\ listen_task = "in_callback"
        /\ ~cancel_req["listen"]
        /\ listen_task' = "listening"
        /\ UNCHANGED cancel_req
     \/ /\ listen_task \in {"in_callback", "listening"}
        /\ cancel_req["listen"]
        /\ listen_task' = "cancelled"
        /\ cancel_req' = [cancel_req EXCEPT !["listen"] = FALSE]
  /\ NotAStop
  /\ UNCHANGED <<adapter, client, stop_monitoring_set, is_listening, known_ids,
                 monitor_task, recheck_task, monitor, stopper, stop_session,
                 running, batch, new_ids, tick_kind, envVars, cliVars, session,
                 invoked, first_batch, first_state, stop_called,
                 outer_cancelled, fatal, failed_at, cmdVars, stop_done>>

\* email_instance.listen() returns or raises on its own
ListenDies ==
  /\ running = "none"
  /\ listen_task = "listening"
  /\ ~cancel_req["listen"]
  /\ listen_task' \in {"done", "failed"}
  /\ NotAStop
  /\ UNCHANGED <<adapter, client, stop_monitoring_set, is_listening, known_ids,
                 monitor_task, recheck_task, procVars, envVars, cliVars,
                 session, invoked, first_batch, first_state, stop_called,
                 outer_cancelled, fatal, failed_at, cmdVars, stop_done>>

\* the re-check loop's test
RecheckLoop(flag, listening) ==
  IF XtLoopContinues(flag, listening) THEN "sleeping" ELSE "done"

\* _periodic_recheck starts: loop test, then asyncio.sleep(interval)
RecheckStart ==
  /\ running = "none"
  /\ recheck_task = "created"
  /\ recheck_task' = IF cancel_req["recheck"] THEN "cancelled"
                     ELSE RecheckLoop(stop_monitoring_set, is_listening)
  /\ cancel_req' = [cancel_req EXCEPT !["recheck"] = FALSE]
  /\ NotAStop
  /\ UNCHANGED <<adapter, client, stop_monitoring_set, is_listening, known_ids,
                 monitor_task, listen_task, monitor, stopper, stop_session,
                 running, batch, new_ids, tick_kind, envVars, cliVars, session,
                 invoked, first_batch, first_state, stop_called,
                 outer_cancelled, fatal, failed_at, cmdVars, stop_done>>

\* the sleep ends: stop test, get_messages (the library's cache, no
\* suspension) and the snapshot of the unprocessed messages; a sleep in the
\* exception handler ends with the loop test only
RecheckWake ==
  /\ running = "none"
  /\ ~cancel_req["recheck"]
  /\ \/ /\ recheck_task = "sleeping"
        /\ IF stop_monitoring_set
             THEN /\ recheck_task' = "done"
                  /\ UNCHANGED <<batch, running, first_batch, first_state>>
             ELSE \E messages \in {SetToSeq(mailbox), <<>>} :
                  /\ batch' = Filter(messages, SeqIds(messages) \ known_ids)
                  /\ NoteFirstFetch(messages)
                  /\ recheck_task' = "delivering"
                  /\ running' = "recheck"
     \/ /\ recheck_task = "err_sleeping"
        /\ recheck_task' = RecheckLoop(stop_monitoring_set, is_listening)
        /\ UNCHANGED <<batch, running, first_batch, first_state>>
  /\ NotAStop
  /\ UNCHANGED <<adapter, client, stop_monitoring_set, is_listening, known_ids,
                 monitor_task, listen_task, monitor, stopper, stop_session,
                 cancel_req, new_ids, tick_kind, envVars, cliVars, session,
                 invoked, stop_called, outer_cancelled, fatal, failed_at,
                 cmdVars, stop_done>>

\* one iteration of `for message in new_messages`, or the end of the loop
RecheckDeliver ==
  /\ running = "recheck"
  /\ recheck_task = "delivering"
  /\ IF batch = <<>>
       THEN /\ recheck_task' = RecheckLoop(stop_monitoring_set, is_listening)
            /\ running' = "none"
            /\ EndFirstBatch
            /\ UNCHANGED <<batch, known_ids, cliVars>>
       ELSE \E res \in ExtractResults, out \in Outcomes :
            /\ known_ids' = known_ids \cup {Head(batch)}
            /\ HandleMessage(Head(batch), res, out)
            /\ CASE out = "return" ->
                      /\ batch' = Tail(batch)
                      /\ UNCHANGED <<recheck_task, running, first_state>>
                 [] out = "await" ->
                      /\ batch' = Tail(batch)
                      /\ recheck_task' = "in_callback"
                      /\ running' = "none"
                      /\ UNCHANGED first_state
                 [] out = "raise" ->
                      /\ batch' = <<>>
                      /\ recheck_task' = RecheckAfterError
                      /\ running' = "none"
                      /\ EndFirstBatch
  /\ NotAStop
  /\ UNCHANGED <<adapter, client, stop_monitoring_set, is_listening,
                 monitor_task, listen_task, monitor, stopper, stop_session,
                 cancel_req, new_ids, tick_kind, envVars, session, invoked,
                 first_batch, stop_called, outer_cancelled, fatal, failed_at,
                 cmdVars, stop_done>>

\* the re-check's callback await completes, or the task is cancelled at an
\* await: `except CancelledError: break` ends it normally, but a cancellation
\* that hits the handler's own sleep escapes
RecheckResume ==
  /\ running = "none"
  /\ \/ /\ recheck_task = "in_callback"
        /\ ~cancel_req["recheck"]
        /\ recheck_task' = "delivering"
        /\ running' = "recheck"
        /\ UNCHANGED <<cancel_req, batch>>
     \/ /\ recheck_task \in {"in_callback", "sleeping", "err_sleeping"}
        /\ cancel_req["recheck"]
        /\ recheck_task' = IF recheck_task = "err_sleeping" THEN "cancelled"
                           ELSE "done"
        /\ cancel_req' = [cancel_req EXCEPT !["recheck"] = FALSE]
        /\ batch' = <<>>
        /\ UNCHANGED running
  /\ NotAStop
  /\ UNCHANGED <<adapter, client, stop_monitoring_set, is_listening, known_ids,
                 monitor_task, listen_task, monitor, stopper, stop_session,
                 new_ids, tick_kind, envVars, cliVars, session, invoked,
                 first_batch, first_state, stop_called, outer_cancelled,
                 fatal, failed_at, cmdVars,
                 stop_done>>

\* the steps of a running XTempMail session
XtSteps ==
  \/ MonitorFlush
  \/ MonitorFlushResume
  \/ MonitorLoopWake
  \/ MonitorCleanup
  \/ MonitorCleanupResume
  \/ ListenStart
  \/ \E m \in Ids : ListenEvent(m)
  \/ ListenResume
  \/ ListenDies
  \/ RecheckStart
  \/ RecheckWake
  \/ RecheckDeliver
  \/ RecheckResume

XtNext == MonitorStartXt \/ XtSteps

\* the steps of a running poll session of an adapter that has its provider
\* client
PollClientSteps ==
  \/ PollStart
  \/ PollFetchReturn
  \/ PollDeliver
  \/ PollCallbackReturn
  \/ PollWake
  \/ PollCancelled
  \/ MonitorPollReturn

\* the steps of a running poll session
PollSteps == PollClientSteps \/ PollFetchRaises

PollNext == MonitorStartPoll \/ PollSteps

Next ==
  \/ \E m \in Ids : Arrive(m)
  \/ OuterCancel
  \/ MonitorScheduled
  \/ StopCall
  \/ StopReturn
  \/ PollNext
  \/ XtNext

Spec == Init /\ [][Next]_vars

\* the event loop resumes every coroutine that is ready, requests and
\* callbacks complete, sleeps end; the provider and the callers of the
\* adapter (Arrive, ListenEvent, ListenDies, OuterCancel, StopCall,
\* MonitorStart) are under no obligation.  The monitor loop's sleep(0.5) is
\* resumed although other coroutines keep taking turns in between: the event
\* loop runs every ready coroutine in turn (strong fairness)
StepFairness ==
  /\ WF_vars(monitor = "scheduled" /\ (MonitorStartPoll \/ MonitorStartXt))
  /\ WF_vars(PollStart)
  /\ WF_vars(PollFetchReturn \/ PollFetchRaises)
  /\ WF_vars(PollDeliver)
  /\ WF_vars(PollCallbackReturn)
  /\ WF_vars(PollWake)
  /\ WF_vars(PollCancelled)
  /\ WF_vars(MonitorPollReturn)
  /\ WF_vars(MonitorFlush)
  /\ WF_vars(MonitorFlushResume)
  /\ SF_vars(MonitorLoopWake)
  /\ WF_vars(MonitorCleanup)
  /\ WF_vars(MonitorCleanupResume)
  /\ WF_vars(ListenStart)
  /\ WF_vars(ListenResume)
  /\ WF_vars(RecheckStart)
  /\ WF_vars(RecheckWake)
  /\ WF_vars(RecheckDeliver)
  /\ WF_vars(RecheckResume)

Fairness == StepFairness /\ WF_vars(StopReturn)

\* the liveness specification lets only the messages 1..MaxLiveId arrive;
\* no action under a fairness condition changes the mailbox
NextLive == Next /\ mailbox' \subseteq 1..MaxLiveId

FairSpec == Init /\ [][NextLive]_vars /\ Fairness


\* ---------------------------------------------------------------------
\* properties
\* ---------------------------------------------------------------------
Alive(task) == task \notin ({"none"} \cup Terminated)

\* C1: in one session of a poll adapter every message id is delivered to the
\* callback at most once
C1_PollAtMostOnce ==
  adapter \in PollAdapters => \A m \in Ids : delivered[m] <= 1

\* C2: in the XTempMail adapter an id is marked in _processed_message_ids
\* when its delivery begins, and no id is delivered twice in one session,
\* whatever the interleaving of the listener and the re-check task
C2_PushAtMostOnce ==
  adapter = "xtempmail" =>
    \A m \in Ids : /\ delivered[m] >= 1 => m \in known_ids
                   /\ delivered[m] <= 1

\* C3: in every adapter an id is in the known-id set from the moment the
\* callback is invoked for it
C3_MarkedBeforeDelivery ==
  \A m \in Ids : delivered[m] >= 1 => m \in known_ids

\* C4: once the first non-empty fetch of a session has been dealt with, every
\* message of that fetch is marked known and was delivered exactly once
C4_FirstFetchDelivered ==
  first_state = "done" =>
    \A m \in first_batch : m \in known_ids /\ delivered[m] = 1

\* C5: a poll tick after the first delivery has invoked the callback exactly
\* for the fetched ids that were not known, and those ids are known when the
\* tick goes to sleep
C5_TickDeliversExactlyNew ==
  (/\ adapter \in PollAdapters
   /\ tick_kind = "later"
   /\ monitor_task \in {"sleeping", "err_sleeping"})
  => (invoked = new_ids /\ new_ids \subseteq known_ids)

\* C6: the orchestrator runs link extraction and the link consumer at most
\* once per message id, marks the id processed before extracting, and hands
\* only the first extracted link to the consumer
C6_OrchestratorOncePerId ==
  \A m \in Ids :
    /\ extract_count[m] <= 1
    /\ Len(handed[m]) <= 1
    /\ extract_count[m] >= 1 => m \in processed_ids
    /\ handed[m] # <<>> =>
         (extracted_links[m] # <<>> /\ handed[m][1] = extracted_links[m][1])

\* an id the adapter delivered twice was extracted and consumed once
C6_Witness ==
  \E m \in Ids :
    delivered[m] >= 2 /\ extract_count[m] = 1 /\ Len(handed[m]) = 1

\* C7: when a stop_monitoring call has returned, the cancellation flag is set
\* and no background task of the session is still alive
C7_StopWaitsForTasks ==
  stop_done =>
    /\ stop_monitoring_set
    /\ ~Alive(monitor_task) /\ ~Alive(listen_task) /\ ~Alive(recheck_task)

\* C8: a stop_monitoring call made while monitor_messages runs leads to the
\* return of monitor_messages, and a returned monitor_messages leaves no
\* background task alive
C8_StopLeadsToReturn ==
  /\ (stop_called /\ MonitorActive) ~> (monitor = "returned")
  /\ [](monitor = "returned" =>
          ~Alive(monitor_task) /\ ~Alive(listen_task) /\ ~Alive(recheck_task))

\* a stopped session has returned after its tasks were spawned and ended
C8_Witness ==
  /\ stop_called
  /\ monitor = "returned"
  /\ \/ monitor_task \in Terminated
     \/ listen_task \in Terminated /\ recheck_task \in Terminated

\* C9: a stop_monitoring call that directly follows a completed one changes
\* nothing in the adapter, and no stop_monitoring call raises
C9_StopIdempotent ==
  [][/\ (stops' > stops /\ consecutive_stops >= 1)
          => AdapterState' = AdapterState
     /\ ~stop_raised']_vars

\* two calls in a row have returned on an adapter whose poll task was cancelled
C9_Witness ==
  consecutive_stops = 2 /\ monitor_task = "cancelled"

\* C10: monitor_messages has returned only if stop_monitoring was called, it
\* was cancelled, or a fatal error escaped
C10_NoSpontaneousReturn ==
  monitor = "returned" => (stop_called \/ outer_cancelled \/ fatal)

\* a session nobody stopped is still monitoring after an absorbed failure
C10_Witness ==
  /\ MonitorActive
  /\ ~stop_called /\ ~outer_cancelled
  /\ monitor_task = "err_sleeping" \/ recheck_task = "err_sleeping"

\* a message is dropped by a poll adapter: its id is held as known, the
\* callback was never invoked for it and no delivery is in progress
Dropped(m) ==
  /\ m \in known_ids
  /\ delivered[m] = 0
  /\ monitor_task \in {"sleeping", "err_sleeping", "fetching"}

\* C11: after a failed fetch the polling loop is still running unless it was
\* stopped or cancelled, and no message that arrived after the failure is
\* dropped undelivered
C11_FetchFailureAbsorbed ==
  failed_at # <<>> =>
    /\ (~stop_monitoring_set /\ ~outer_cancelled) => Alive(monitor_task)
    /\ \A m \in mailbox \ failed_at[1] : ~Dropped(m)

\* C15: in the XTempMail adapter a listener task that ended by itself is
\* replaced by a new one at the next turn of the monitor loop (unless the
\* session is being cancelled), and monitor_messages does not return because
\* of it
C15_ListenerRestarted ==
  /\ (listen_task \in {"done", "failed"} /\ monitor = "loop_sleep")
       ~> (Alive(listen_task) \/ outer_cancelled)
  /\ [](monitor = "returned" /\ listen_task \in {"done", "failed"}
          => stop_called \/ outer_cancelled)

\* a dead listener was replaced and the session is still monitoring
C15_Witness ==
  /\ adapter = "xtempmail"
  /\ monitor = "loop_sleep"
  /\ listen_task = "restarted"
  /\ ~stop_called /\ ~outer_cancelled

\* C31: the messages of one fetch reach the callback in the order of the
\* fetch result (ascending ids in get_messages' answer): the message a loop
\* delivers is the first it still has to visit, comes before every message
\* still to visit, and, in a poll tick, after every message already visited
C31_DeliveredInFetchOrder ==
  [][\A m \in Ids :
       (delivered'[m] # delivered[m] /\ running \in {"poll", "monitor", "recheck"})
         => /\ batch # <<>>
            /\ m = Head(batch)
            /\ \A k \in SeqIds(batch') : m < k
            /\ adapter \in PollAdapters => \A k \in invoked : k < m]_vars

\* a poll tick has delivered both messages of its fetch
C31_Witness ==
  /\ adapter \in PollAdapters
  /\ monitor_task = "delivering"
  /\ batch = <<>>
  /\ invoked = {1, 2}
  /\ delivered[1] = 1 /\ delivered[2] = 1

\* C32: the step with which a monitor_messages call begins to run leaves the
\* known-id set empty and the cancellation flag clear, whatever an earlier
\* session or an earlier stop_monitoring call left behind, and a poll
\* session holds no known id before its first fetch
C32_SessionStartsReset ==
  /\ [][(~MonitorActive /\ MonitorActive')
          => (known_ids' = {} /\ ~stop_monitoring_set')]_vars
  /\ []((adapter \in PollAdapters /\ MonitorActive /\ tick_kind = "none")
          => known_ids = {})

\* a second session is running after the first was stopped, with the flag
\* clear again, and has delivered a message
C32_Witness ==
  /\ session = 2
  /\ stops >= 1
  /\ MonitorActive
  /\ ~stop_monitoring_set
  /\ \E m \in Ids : delivered[m] >= 1

\* C33: in the XTempMail adapter no listener task is created once
\* stop_monitoring has set the stop flag
C33_NoRestartAfterStop ==
  [][(stop_monitoring_set /\ listen_task' # listen_task)
       => listen_task' \notin {"created", "restarted"}]_vars

\* C35: once a stop_monitoring call made during a session has returned, the
\* callback is not invoked again in that session
C35_NoCallbackAfterStop ==
  [][(stop_called /\ stop_done)
       => \A m \in Ids : delivered'[m] <= delivered[m]]_vars

\* C36: a stop_monitoring call that has returned after monitor_messages was
\* invoked, also one made before the call has cleared the stop flag, leads
\* to the return of that monitor_messages call
C36_StopNeverLost ==
  (stop_done /\ monitor \notin {"idle", "returned"}) ~> (monitor = "returned")

\* C37: no message is lost: a poll session never holds a message as known
\* that the callback was not invoked for while no delivery is in progress
\* (such a message is not delivered for the rest of the session)
C37_NoMessageLost ==
  adapter \in PollAdapters => \A m \in Ids : ~Dropped(m)

\* C38: an exception raised by the callback does not end the session: after
\* one, unless a stop or a cancellation intervened, monitor_messages is still
\* running, the poll task is alive, and XTempMail's monitor loop has not left
\* for its cleanup and its re-check and listener tasks were not ended by it
C38_CallbackErrorAbsorbed ==
  (callback_raised /\ ~stop_monitoring_set /\ ~outer_cancelled) =>
    /\ MonitorActive
    /\ adapter \in PollAdapters => Alive(monitor_task)
    /\ adapter = "xtempmail" =>
         /\ monitor \in {"flush", "flush_cb", "loop_sleep"}
         /\ monitor = "loop_sleep" =>
              (recheck_task \notin Terminated /\ listen_task # "cancelled")

\* the callback raised in the re-check task, which sleeps in its handler
C38_Witness ==
  /\ callback_raised
  /\ adapter = "xtempmail"
  /\ recheck_task = "err_sleeping"
  /\ monitor = "loop_sleep"
  /\ ~stop_monitoring_set /\ ~outer_cancelled

\* ---------------------------------------------------------------------
\* Single operations: the registry, restore_account, validate_account and
\* the normalisation of a provider message
\* ---------------------------------------------------------------------
\* what the saved account data holds: usable credentials, credentials the
\* provider no longer accepts, or none
Creds == {"valid", "expired", "missing"}
\* whether the provider (or the provider library) answers the requests of
\* the operation
Provider == {"up", "down"}

\* ServiceRegistry.create_service: the class instantiated, or "raised" for
\* ValueError("Unknown service: ...")
CreateService(reg, name) ==
  IF GetService(reg, name) = "none" THEN "raised" ELSE GetService(reg, name)

\* create_account of every adapter: the provider's error is re-raised
CreateAccount(provider) ==
  IF provider = "up" THEN "created" ELSE "raised"

\* restore_account: "restored" (the saved account), "renewed" (GuerrillaMail
\* _renew_session), "created" (create_account's new account) or "raised"
RestoreAccount(a, creds, provider) ==
  CASE a = "mailtm" ->
         IF creds = "missing" THEN "raised"
         ELSE IF creds = "valid" /\ provider = "up" THEN "restored"
         ELSE "raised"
    [] a = "guerrillamail" ->
         IF creds = "missing" THEN CreateAccount(provider)
         ELSE IF provider = "down" THEN CreateAccount(provider)
         ELSE IF creds = "expired" THEN "renewed"
         ELSE "restored"
    [] a = "xtempmail" ->
         IF provider = "up" THEN "restored" ELSE "raised"

\* the provider client after restore_account
ClientAfterRestore(a, c, provider) ==
  IF a = "xtempmail" THEN (provider = "up" \/ c) ELSE TRUE

\* validate_account: "true", "false" or "raised"
ValidateAccount(a, c, creds, provider) ==
  CASE a = "mailtm" ->
         IF ~c /\ RestoreAccount(a, creds, provider) = "raised" THEN "raised"
         ELSE IF creds = "missing" THEN "false"
         ELSE IF creds = "valid" /\ provider = "up" THEN "true"
         ELSE "false"
    [] a = "guerrillamail" ->
         IF creds = "valid" /\ provider = "up" THEN "true" ELSE "false"
    [] a = "xtempmail" ->
         IF ~c /\ RestoreAccount(a, creds, provider) = "raised" THEN "false"
         ELSE "true"

\* the provider client after validate_account
ClientAfterValidate(a, c, provider) ==
  CASE a = "mailtm" -> TRUE
    [] a = "guerrillamail" -> TRUE
    [] a = "xtempmail" -> IF c THEN c ELSE ClientAfterRestore(a, c, provider)

\* strings are sequences of characters
Strings == {<<>>, <<"a">>, <<"-">>}
\* a provider message: id is <<>> when the provider gave none; extra stands
\* for the payload fields besides sender, subject and text (read flag, ...)
Payloads == [id : {<<>>, <<"7">>}, sender : Strings, subject : Strings,
             text : Strings, extra : BOOLEAN]

\* hashlib.md5(content.encode()).hexdigest(), taken as injective
Md5(content) == <<"md5", content>>

\* the adapters whose _convert_to_servicemessage computes an id when the
\* provider gave none
FallbackAdapters == {"xtempmail", "guerrillamail"}

\* ServiceMessage.id as _convert_to_servicemessage sets it
MessageId(a, p) ==
  CASE a = "mailtm" -> p.id
    [] a = "xtempmail" ->
         IF p.id # <<>> THEN p.id
         ELSE Md5(p.sender \o <<"-">> \o p.subject \o <<"-">> \o p.text)
    [] a = "guerrillamail" ->
         IF p.id # <<>> THEN p.id ELSE Md5(p)

opFrame == <<adapter, stop_monitoring_set, is_listening, known_ids,
             monitor_task, listen_task, recheck_task, procVars, envVars,
             cliVars, histVars, commandVars, closeVars, storeVars>>

\* ServiceRegistry.register(name, service_class)
RegisterCall(name, cls) ==
  /\ registry' = Register(registry, name, cls)
  /\ last_reg' = <<name, cls>>
  /\ op' = [kind |-> "register"]
  /\ UNCHANGED <<client, opFrame>>

\* ServiceRegistry.create_service(name)
CreateServiceCall(name) ==
  /\ op' = [kind |-> "create_service", name |-> name,
            result |-> CreateService(registry, name)]
  /\ UNCHANGED <<registry, last_reg, client, opFrame>>

\* await service.restore_account(account_data)
RestoreAccountCall(creds, provider) ==
  /\ op' = [kind |-> "restore_account", creds |-> creds,
            provider |-> provider,
            result |-> RestoreAccount(adapter, creds, provider)]
  /\ client' = ClientAfterRestore(adapter, client, provider)
  /\ UNCHANGED <<registry, last_reg, opFrame>>

\* await service.validate_account(account_data)
ValidateAccountCall(creds, provider) ==
  /\ op' = [kind |-> "validate_account", creds |-> creds,
            provider |-> provider, had_client |-> client,
            result |-> ValidateAccount(adapter, client, creds, provider)]
  /\ client' = ClientAfterValidate(adapter, client, provider)
  /\ UNCHANGED <<registry, last_reg, opFrame>>

\* two fetches of one provider message, each normalised by
\* _convert_to_servicemessage: the payloads agree on id, sender, subject and
\* text
NormalizeCall(p, extra) ==
  /\ op' = [kind |-> "normalize", first |-> p,
            second |-> [p EXCEPT !.extra = extra],
            id1 |-> MessageId(adapter, p),
            id2 |-> MessageId(adapter, [p EXCEPT !.extra = extra])]
  /\ UNCHANGED <<registry, last_reg, client, opFrame>>

\* the provider messages a mailbox is made of: one with a provider id, one
\* without
BoxPayloads ==
  {[id |-> <<"7">>, sender |-> <<"a">>, subject |-> <<>>, text |-> <<>>,
    extra |-> FALSE],
   [id |-> <<>>, sender |-> <<"a">>, subject |-> <<"a">>, text |-> <<>>,
    extra |-> FALSE]}

\* the ids a caller may ask for
RequestedIds(a) ==
  {<<"7">>, <<"8">>} \cup {MessageId(a, p) : p \in BoxPayloads}

NoMessage == [raised |-> "ValueError", id |-> <<>>]

IdMatchesMut(message_id, requested) == TRUE
\* if msg.id == message_id
IdMatches(message_id, requested) == message_id = requested

\* get_message_by_id: the id of the ServiceMessage returned, or the error
\* raised.  XTempMail searches its own get_messages; GuerrillaMail and
\* MailTM ask the provider, which answers with the message stored under
\* that id or with an error / an empty body
GetMessageById(a, c, creds, provider, box, requested) ==
  CASE a = "xtempmail" ->
         IF ~c /\ RestoreAccount(a, creds, provider) = "raised"
           THEN [raised |-> "Exception", id |-> <<>>]
         ELSE IF \E p \in box : IdMatches(MessageId(a, p), requested)
           THEN [raised |-> "none",
                 id |-> MessageId(a, CHOOSE p \in box :
                                       IdMatches(MessageId(a, p), requested))]
           ELSE NoMessage
    [] a = "guerrillamail" ->
         IF creds = "missing" \/ provider = "down" THEN NoMessage
         ELSE IF \E p \in box : p.id # <<>> /\ p.id = requested
           THEN [raised |-> "none",
                 id |-> MessageId(a, CHOOSE p \in box :
                                       p.id # <<>> /\ p.id = requested)]
           ELSE NoMessage
    [] a = "mailtm" ->
         IF ~c /\ RestoreAccount(a, creds, provider) = "raised"
           THEN [raised |-> "Exception", id |-> <<>>]
         ELSE IF creds = "missing" THEN NoMessage
         ELSE IF provider = "up" /\ \E p \in box : p.id # <<>> /\ p.id = requested
           THEN [raised |-> "none", id |-> requested]
           ELSE [raised |-> "Exception", id |-> <<>>]

\* await service.get_message_by_id(account_data, message_id)
GetMessageByIdCall(creds, provider, box, requested) ==
  /\ op' = [kind |-> "get_message_by_id", box |-> box,
            requested |-> requested,
            result |-> GetMessageById(adapter, client, creds, provider, box,
                                      requested)]
  /\ client' = ClientAfterRestore(adapter, client, provider)
  /\ UNCHANGED <<registry, last_reg, opFrame>>

\* the registry under any sequence of registrations and lookups
RegistryNext ==
  \/ \E name \in Names, cls \in Adapters : RegisterCall(name, cls)
  \/ \E name \in Names : CreateServiceCall(name)

RegistrySpec == Init /\ [][RegistryNext]_vars

\* one adapter under any sequence of account operations and normalisations
OpsNext ==
  \/ \E creds \in Creds, provider \in Provider :
       RestoreAccountCall(creds, provider)
  \/ \E creds \in Creds, provider \in Provider :
       ValidateAccountCall(creds, provider)
  \/ \E p \in Payloads, extra \in BOOLEAN : NormalizeCall(p, extra)
  \/ \E creds \in Creds, provider \in Provider, box \in SUBSET BoxPayloads :
       \E requested \in RequestedIds(adapter) :
         GetMessageByIdCall(creds, provider, box, requested)

OpsSpec == Init /\ [][OpsNext]_vars

\* C13: in every adapter restore_account with missing or expired
\* credentials does not raise (it returns an account obtained by falling
\* back to create_account), the provider being reachable.
C13_RestoreNeverRaises ==
  (op.kind = "restore_account" /\ op.creds \in {"missing", "expired"}
     /\ op.provider = "up")
    => op.result # "raised"

\* C16: in every adapter validate_account returns true or false and never
\* raises, whatever the account data, the provider state and whether the
\* adapter has a provider client.
C16_ValidateNeverRaises ==
  op.kind = "validate_account" => op.result \in {"true", "false"}

\* C18: after register(name, adapter), whatever was registered before,
\* create_service returns that adapter for the given name and for the
\* adapter's SERVICE_NAME, in any letter case.
C18_RegisteredByNameAndServiceName ==
  last_reg # <<>> =>
    /\ CreateService(registry, last_reg[1]) = last_reg[2]
    /\ \A caps \in BOOLEAN :
         CreateService(registry, [text |-> ServiceName(last_reg[2]),
                                  caps |-> caps]) = last_reg[2]

C18_Witness ==
  /\ last_reg # <<>>
  /\ last_reg[1].text # ServiceName(last_reg[2])
  /\ op.kind = "create_service"
  /\ op.name.text = ServiceName(last_reg[2])
  /\ op.result = last_reg[2]
  /\ GetService(ModuleRegistry, last_reg[1]) \notin {"none", last_reg[2]}

\* C20: for a message without a provider id the id assigned by
\* normalisation depends on (sender, subject, text) only: two fetches of
\* the same message get the same id in XTempMail and GuerrillaMail,
\* whatever other payload field differs.
C20_FallbackIdFromContent ==
  (op.kind = "normalize" /\ adapter \in FallbackAdapters
     /\ op.first.id = <<>>)
    => op.id1 = op.id2

\* ---------------------------------------------------------------------
\* The `new` command: TempMailCLI.new_account and start_monitoring
\* ---------------------------------------------------------------------
coreVars == <<adapterVars, procVars, envVars, cliVars, histVars>>

CaughtByNewAccountMut(exc) == exc = "ValueError"
\* new_account: except Exception (every error of create_service,
\* create_account, save_account, pyperclip.copy and start_monitoring)
CaughtByNewAccount(exc) ==
  exc \in {"ValueError", "Exception", "PyperclipException", "TimeoutError"}

CaughtByStartMonitoringMut(exc) == exc = "Exception"
\* start_monitoring: except asyncio.TimeoutError / except Exception
CaughtByStartMonitoring(exc) == exc \in {"TimeoutError", "Exception"}

\* how the awaited monitor_messages (inside wait_for when a timeout is
\* given) can end: after a timeout wait_for raises TimeoutError or, the
\* adapter having swallowed the CancelledError, returns
\* a Ctrl+C cancels the main task: wait_for cancels monitor_messages and
\* re-raises the CancelledError; awaited directly, monitor_messages returns
\* where it swallowed the CancelledError and lets it through elsewhere
WaitOutcomes ==
  IF interrupted
    THEN IF timeout_arg THEN {"CancelledError"}
         ELSE {"return", "CancelledError"}
  ELSE IF fatal THEN {"Exception"}
  ELSE IF outer_cancelled THEN {"return", "TimeoutError"}
  ELSE {"return"}

FinallyCloseMut(exc) ==
  IF exc = "none" \/ CaughtByNewAccount(exc) THEN "closing" ELSE "done"
\* new_account: finally: if self.current_service: await close(), entered
\* however the try block ended (exc = "none": without an exception)
FinallyClose(exc) == "closing"

\* a new TempMailCLI, the module registry, `new <service>` not yet begun
CliInit ==
  /\ adapter = "none"
  /\ client = FALSE
  /\ FreshAdapter
  /\ registry = ModuleRegistry
  /\ last_reg = <<>>
  /\ op = [kind |-> "none"]
  /\ cli = "start"
  /\ service_arg \in Names
  /\ timeout_arg \in BOOLEAN
  /\ created = "none"
  /\ saved = FALSE
  /\ reported = "none"
  /\ pending = "none"
  /\ escaped = FALSE
  /\ cli_stops = 0
  /\ interrupted = FALSE
  /\ closer = "idle"
  /\ closed = FALSE
  /\ open_sessions = 0
  /\ accounts = <<>>
  /\ saves = <<>>

\* an exception reaches new_account's except clause; the finally clause
\* closes the service when one was created
NewAccountExcept(exc, what) ==
  /\ reported' = IF CaughtByNewAccount(exc) THEN what ELSE reported
  /\ escaped' = ~CaughtByNewAccount(exc)

\* self.current_service = ServiceRegistry.create_service(args.service)
NewCreateService ==
  /\ cli = "start"
  /\ IF CreateService(registry, service_arg) = "raised"
       THEN /\ NewAccountExcept("ValueError", "unknown service")
            /\ cli' = "done"
            /\ UNCHANGED adapter
       ELSE /\ adapter' = CreateService(registry, service_arg)
            /\ cli' = "creating"
            /\ UNCHANGED <<reported, escaped>>
  /\ UNCHANGED <<client, stop_monitoring_set, is_listening, known_ids,
                 monitor_task, listen_task, recheck_task, procVars, envVars,
                 cliVars, histVars, opsVars, storeVars, closeVars, service_arg,
                 timeout_arg, created, saved, pending, cli_stops, interrupted>>

\* account_data = await self.current_service.create_account(**kwargs)
NewCreateAccount(provider) ==
  /\ cli = "creating"
  /\ IF CreateAccount(provider) = "raised"
       THEN /\ created' = "failed"
            /\ client' \in IF adapter = "xtempmail" THEN {FALSE} ELSE BOOLEAN
            /\ NewAccountExcept("Exception", "create_account")
            /\ cli' = FinallyClose("Exception")
       ELSE /\ created' = "ok"
            /\ client' = TRUE
            /\ cli' = "created"
            /\ UNCHANGED <<reported, escaped>>
  /\ UNCHANGED <<adapter, stop_monitoring_set, is_listening, known_ids,
                 monitor_task, listen_task, recheck_task, procVars, envVars,
                 cliVars, histVars, opsVars, storeVars, closeVars, service_arg,
                 timeout_arg, saved, pending, cli_stops, interrupted>>

\* self.storage.save_account(account), the prints and pyperclip.copy, which
\* raises where no clipboard is available
NewSaveAccount(clipboard) ==
  /\ cli = "created"
  /\ saved' = TRUE
  /\ IF clipboard
       THEN cli' = "saved" /\ UNCHANGED <<reported, escaped>>
       ELSE /\ cli' = FinallyClose("PyperclipException")
            /\ NewAccountExcept("PyperclipException", "clipboard")
  /\ UNCHANGED <<coreVars, opsVars, storeVars, closeVars, service_arg, timeout_arg,
                 created, pending, cli_stops, interrupted>>

\* start_monitoring up to the await of monitor_messages (under wait_for
\* when args.timeout > 0)
StartMonitoring ==
  /\ cli = "saved"
  /\ MonitorMessagesPoll \/ MonitorMessagesXt
  /\ cli' = "monitoring"
  /\ UNCHANGED <<opsVars, storeVars, closeVars, service_arg, timeout_arg, created, saved,
                 reported, pending, escaped, cli_stops, interrupted>>

\* the timeout of wait_for expires
StartMonitoringTimeout ==
  /\ cli = "monitoring"
  /\ timeout_arg
  /\ WaitForTimeout
  /\ UNCHANGED cmdVars

\* Ctrl+C while start_monitoring awaits: asyncio.run's signal handler
\* cancels the main task
Interrupt ==
  /\ cli = "monitoring"
  /\ ~interrupted
  /\ WaitForTimeout
  /\ interrupted' = TRUE
  /\ UNCHANGED <<opsVars, storeVars, closeVars, cli, service_arg, timeout_arg,
                 created, saved, reported, pending, escaped, cli_stops>>

\* the await ends, by a return or an exception; the finally clause calls
\* stop_monitoring()
StartMonitoringFinally ==
  /\ cli = "monitoring"
  /\ monitor = "returned"
  /\ \E out \in WaitOutcomes :
       pending' = IF out = "return" \/ CaughtByStartMonitoring(out)
                    THEN "none" ELSE out
  /\ StopMonitoring
  /\ cli_stops' = cli_stops + 1
  /\ cli' = "stopping"
  /\ UNCHANGED <<opsVars, storeVars, closeVars, service_arg, timeout_arg, created, saved,
                 reported, escaped, interrupted>>

\* stop_monitoring() returns and with it start_monitoring, normally or with
\* the exception it let through, which new_account's except clause receives
StartMonitoringReturns ==
  /\ cli = "stopping"
  /\ running = "none"
  /\ IF stopper = "awaiting"
       THEN StopMonitoringReturns
       ELSE UNCHANGED coreVars
  /\ cli' = FinallyClose(pending)
  /\ IF pending = "none"
       THEN UNCHANGED <<reported, escaped>>
       ELSE NewAccountExcept(pending, "monitoring")
  /\ UNCHANGED <<opsVars, storeVars, closeVars, service_arg, timeout_arg, created, saved,
                 pending, cli_stops, interrupted>>

\* finally: await self.current_service.close(), which begins with
\* stop_monitoring()
NewClose ==
  /\ cli = "closing"
  /\ StopMonitoring
  /\ cli' = "close_stopping"
  /\ UNCHANGED <<opsVars, storeVars, closeVars, service_arg, timeout_arg, created, saved,
                 reported, pending, escaped, cli_stops, interrupted>>

\* stop_monitoring() returns into close()
NewCloseStopReturns ==
  /\ cli = "close_stopping"
  /\ running = "none"
  /\ IF stopper = "awaiting"
       THEN StopMonitoringReturns
       ELSE UNCHANGED coreVars
  /\ cli' = "releasing"
  /\ UNCHANGED <<opsVars, storeVars, closeVars, service_arg, timeout_arg, created, saved,
                 reported, pending, escaped, cli_stops, interrupted>>

\* close() releases the provider session (an error of the provider call is
\* logged) and drops the reference; the command ends
NewCloseReleases ==
  /\ cli = "releasing"
  /\ client' = FALSE
  /\ cli' = "done"
  /\ UNCHANGED <<adapter, stop_monitoring_set, is_listening, known_ids,
                 monitor_task, listen_task, recheck_task, procVars, envVars,
                 cliVars, histVars, opsVars, storeVars, closeVars, service_arg,
                 timeout_arg, created, saved, reported, pending, escaped,
                 cli_stops, interrupted>>

CliNext ==
  \/ NewCreateService
  \/ \E provider \in Provider : NewCreateAccount(provider)
  \/ \E clipboard \in BOOLEAN : NewSaveAccount(clipboard)
  \/ StartMonitoring
  \/ StartMonitoringTimeout
  \/ Interrupt
  \/ StartMonitoringFinally
  \/ StartMonitoringReturns
  \/ NewClose
  \/ NewCloseStopReturns
  \/ NewCloseReleases
  \/ \E m \in Ids : Arrive(m)
  \* create_account has set the provider client before monitoring starts
  \/ PollClientSteps
  \/ XtSteps

CliSpec == CliInit /\ [][CliNext]_vars

\* start_monitoring goes on when its await ends and when stop_monitoring()
\* returns; the timeout itself is under no obligation
CliFairness ==
  /\ StepFairness
  /\ WF_vars(StartMonitoringFinally)
  /\ WF_vars(StartMonitoringReturns)

CliFairSpec == CliInit /\ [][CliNext]_vars /\ CliFairness

\* positions of new_account after start_monitoring or the except clause
AfterTry == {"closing", "close_stopping", "releasing", "done"}

\* C12: when the timeout of start_monitoring expires before monitor_messages
\* has returned, start_monitoring returns without an exception and has
\* called stop_monitoring() exactly once.
C12_TimeoutEndsNormally ==
  /\ [](cli_stops <= 1)
  /\ []((timeout_arg /\ outer_cancelled /\ ~interrupted /\ cli \in AfterTry) =>
          /\ pending = "none"
          /\ reported # "monitoring"
          /\ cli_stops = 1
          /\ cli = "closing" => stops = 1)
  /\ (timeout_arg /\ outer_cancelled /\ ~interrupted) ~> (cli \in AfterTry)

C12_Witness ==
  /\ timeout_arg /\ outer_cancelled /\ ~interrupted /\ cli = "done"
  /\ pending = "none" /\ cli_stops = 1

\* C17: create_service looks the name up without regard to letter case and
\* fails with the unknown-service error when no adapter is registered under
\* it; in the `new` command the failure comes before any account is created
\* and before monitoring starts.
C17_UnknownServiceFailsFirst ==
  cli # "start" =>
    IF service_arg.text \in DOMAIN registry
      THEN adapter = registry[service_arg.text] /\ reported # "unknown service"
      ELSE /\ reported = "unknown service"
           /\ adapter = "none"
           /\ created = "none"
           /\ ~saved
           /\ session = 0
           /\ monitor = "idle"

C17_Witness ==
  /\ cli = "done"
  /\ service_arg.text \notin DOMAIN registry
  /\ reported = "unknown service"

\* C19: when create_account fails in the `new` command the error is
\* printed, monitor_messages is never called, nothing is saved and no
\* exception leaves new_account.
C19_CreateFailureContained ==
  created = "failed" =>
    /\ reported = "create_account"
    /\ session = 0
    /\ monitor = "idle"
    /\ ~saved
    /\ ~escaped
    /\ cli \in AfterTry

C19_Witness ==
  /\ created = "failed"
  /\ cli = "done"
  /\ reported = "create_account"

\* main: asyncio.run raises KeyboardInterrupt when the main task ends
\* cancelled after a Ctrl+C (sys.exit(0)); another exception leaving the
\* command gives sys.exit(1); a command that returns ends with code 0
ExitCode ==
  IF escaped /\ pending # "CancelledError" THEN 1 ELSE 0

\* C29: after an interactive interrupt during monitoring start_monitoring
\* has called stop_monitoring() and returned without an exception, and the
\* process exits with code 0.
C29_InterruptEndsNormally ==
  (interrupted /\ cli \in AfterTry) =>
    /\ cli_stops = 1
    /\ pending = "none"
    /\ ExitCode = 0

\* C30: once the command has created its adapter it ends only through
\* close(), whatever ended the try block (timeout, interrupt, monitoring
\* error, create_account failure), and the provider session is released.
C30_ClosedOnEveryExit ==
  /\ []((cli = "done" /\ adapter # "none") => ~client)
  /\ [][(cli' = "done" /\ cli # "done" /\ adapter' # "none")
          => cli = "releasing"]_vars

\* the command was interrupted, the CancelledError left new_account, and
\* the adapter was closed
C30_Witness ==
  /\ cli = "done"
  /\ adapter # "none"
  /\ interrupted
  /\ escaped
  /\ ~client

\* ---------------------------------------------------------------------
\* close(): MailTMService.close, GuerrillaMailService.close,
\* XTempMailService.close, called on an adapter that may be monitoring
\* ---------------------------------------------------------------------
ReleaseMut(c) == c
\* if self.mailtm: ... self.mailtm = None  (session, email_instance alike):
\* the provider client after the release
Release(c) == FALSE

\* monitor_messages is called; callers do not call it while close() runs
CloseMonitorMessages ==
  /\ closer = "idle"
  /\ MonitorMessagesPoll \/ MonitorMessagesXt
  /\ closed' = FALSE
  /\ UNCHANGED <<opsVars, storeVars, commandVars, closer, open_sessions>>

\* close() is called: await super().close() / await self.stop_monitoring()
Close ==
  /\ closer = "idle"
  /\ StopMonitoring
  /\ closer' = "stopping"
  /\ UNCHANGED <<opsVars, storeVars, commandVars, closed, open_sessions>>

\* stop_monitoring() returns into close()
CloseStopReturns ==
  /\ closer = "stopping"
  /\ running = "none"
  /\ IF stopper = "awaiting"
       THEN StopMonitoringReturns
       ELSE UNCHANGED coreVars
  /\ closer' = "releasing"
  /\ UNCHANGED <<opsVars, storeVars, commandVars, closed, open_sessions>>

\* the provider session is released when there is one (an error of the
\* provider call is logged), the reference is dropped and close() returns
CloseReturns ==
  /\ closer = "releasing"
  /\ running = "none"
  /\ client' = Release(client)
  /\ closer' = "idle"
  /\ closed' = TRUE
  /\ UNCHANGED <<adapter, stop_monitoring_set, is_listening, known_ids,
                 monitor_task, listen_task, recheck_task, procVars, envVars,
                 cliVars, histVars, opsVars, storeVars, commandVars,
                 open_sessions>>

CloseNext ==
  \/ \E m \in Ids : Arrive(m)
  \/ CloseMonitorMessages
  \/ Close
  \/ CloseStopReturns
  \/ CloseReturns
  \/ PollSteps
  \/ XtSteps

CloseSpec == Init /\ [][CloseNext]_vars

\* C14: in every adapter close() calls stop_monitoring() before it releases
\* the provider session, only close() releases it, the adapter holds no
\* provider session when close() has returned, and a close() that follows a
\* returned close() raises nothing and changes nothing in the adapter.
C14_CloseIdempotent ==
  /\ [](closer = "releasing" =>
          /\ stop_monitoring_set
          /\ stopper = "idle"
          /\ adapter \in PollAdapters => ~Alive(monitor_task))
  /\ [][client /\ ~client' => closer = "releasing"]_vars
  /\ [](closed => ~client)
  /\ [][(closed /\ closer' # closer)
          => (AdapterState' = AdapterState /\ ~stop_raised')]_vars

\* a second close() has returned on an adapter that was monitoring when the
\* first one was called
C14_Witness ==
  /\ closed /\ closer = "idle" /\ stops = 2 /\ session > 0
  /\ monitor_task = "cancelled"

\* ---------------------------------------------------------------------
\* AccountStorage and the `list` and `use` commands
\* ---------------------------------------------------------------------
\* the accounts the commands save: an address belongs to one service, and
\* address "a" is saved with the session data of two different restores
SavedAccounts ==
  {[address |-> "a", service |-> "xtempmail", data |-> "s1"],
   [address |-> "a", service |-> "xtempmail", data |-> "s2"],
   [address |-> "b", service |-> "mailtm", data |-> "s1"],
   [address |-> "c", service |-> "xtempmail", data |-> "s1"]}

\* None where a record is expected
NoAccount == [address |-> "none", service |-> "none", data |-> "none"]

KeepAddressesOtherThanMut(s, address) == s
\* [acc for acc in accounts if acc.get("address") != account.address]
RECURSIVE KeepAddressesOtherThan(_, _)
KeepAddressesOtherThan(s, address) ==
  IF s = <<>> THEN <<>>
  ELSE IF Head(s).address # address
    THEN <<Head(s)>> \o KeepAddressesOtherThan(Tail(s), address)
    ELSE KeepAddressesOtherThan(Tail(s), address)

\* accounts[-n:] for n > 0
LastN(s, n) ==
  IF Len(s) > n THEN SubSeq(s, Len(s) - n + 1, Len(s)) ELSE s

SaveAccountMut(accts, account) ==
  LET appended == Append(KeepAddressesOtherThan(accts, account.address), account)
  IN IF Len(appended) > MaxAccounts
       THEN SubSeq(appended, 1, MaxAccounts) ELSE appended
\* AccountStorage.save_account: drop the record of the same address, append,
\* keep the last MaxAccounts
SaveAccount(accts, account) ==
  LET appended == Append(KeepAddressesOtherThan(accts, account.address), account)
  IN IF Len(appended) > MaxAccounts
       THEN LastN(appended, MaxAccounts) ELSE appended

GetAccountByIndexMut(accts, index) ==
  IF index <= 0 \/ index > Len(accts) THEN NoAccount ELSE accts[index]
\* AccountStorage.get_account_by_index: accounts[-index]
GetAccountByIndex(accts, index) ==
  IF index <= 0 \/ index > Len(accts)
    THEN NoAccount
    ELSE accts[Len(accts) - index + 1]

\* AccountStorage.get_recent_accounts: accounts[-count:] if accounts else []
GetRecentAccounts(accts, count) ==
  IF accts = <<>> THEN <<>>
  ELSE IF count > 0 THEN LastN(accts, count)
  ELSE SubSeq(accts, 1 - count, Len(accts))

\* reversed(accounts)
Reversed(s) == [k \in 1..Len(s) |-> s[Len(s) - k + 1]]

\* the positional parameters (after self) of the two storage methods
GetAccountByIndexParams == <<"index">>
GetRecentAccountsParams == <<"count">>

\* a call with more positional arguments than parameters raises TypeError
Accepts(params, args) == Len(args) <= Len(params)

\* list_accounts: the numbered lines it prints (position k is number k)
ListAccounts(accts, count, service) ==
  IF Accepts(GetRecentAccountsParams, <<count, service>>)
    THEN [raised |-> "none",
          value |-> Reversed(GetRecentAccounts(accts, count))]
    ELSE [raised |-> "TypeError", value |-> <<>>]

\* use_account up to the account it goes on to restore and monitor
UseAccount(accts, index, service) ==
  IF Accepts(GetAccountByIndexParams, <<index, service>>)
    THEN [raised |-> "none", value |-> GetAccountByIndex(accts, index)]
    ELSE [raised |-> "TypeError", value |-> NoAccount]

storeFrame == <<coreVars, registry, last_reg, commandVars, closeVars>>

\* self.storage.save_account(account)
SaveAccountCall(account) ==
  /\ Len(saves) < MaxSaves
  /\ accounts' = SaveAccount(accounts, account)
  /\ saves' = Append(saves, account)
  /\ op' = [kind |-> "save_account"]
  /\ UNCHANGED storeFrame

\* self.storage.get_account_by_index(index)
GetAccountByIndexCall(index) ==
  /\ op' = [kind |-> "get_account_by_index", index |-> index,
            result |-> GetAccountByIndex(accounts, index)]
  /\ UNCHANGED <<accounts, saves, storeFrame>>

\* tmpmail list [service] [-c count]
ListAccountsCall(count, service) ==
  /\ op' = [kind |-> "list", count |-> count, service |-> service,
            result |-> ListAccounts(accounts, count, service)]
  /\ UNCHANGED <<accounts, saves, storeFrame>>

\* tmpmail use <index> [--service service]
UseAccountCall(index, service) ==
  /\ op' = [kind |-> "use", index |-> index, service |-> service,
            result |-> UseAccount(accounts, index, service)]
  /\ UNCHANGED <<accounts, saves, storeFrame>>

\* the indexes and counts tried, and the optional service filter
Indexes == (0 - 1)..(MaxAccounts + 1)
ServiceFilters == {"none", "xtempmail", "mailtm"}

StorageNext ==
  \/ \E account \in SavedAccounts : SaveAccountCall(account)
  \/ \E index \in Indexes : GetAccountByIndexCall(index)
  \/ \E count \in Indexes, service \in ServiceFilters :
       ListAccountsCall(count, service)
  \/ \E index \in Indexes, service \in ServiceFilters :
       UseAccountCall(index, service)

StorageSpec == Init /\ [][StorageNext]_vars

\* the saves that are the last one of their address, in call order
RECURSIVE LatestSaves(_)
LatestSaves(s) ==
  IF s = <<>> THEN <<>>
  ELSE IF \E k \in 2..Len(s) : s[k].address = Head(s).address
    THEN LatestSaves(Tail(s))
    ELSE <<Head(s)>> \o LatestSaves(Tail(s))

\* the records of one service (all of them without a filter)
RECURSIVE OfService(_, _)
OfService(s, service) ==
  IF s = <<>> THEN <<>>
  ELSE IF service = "none" \/ Head(s).service = service
    THEN <<Head(s)>> \o OfService(Tail(s), service)
    ELSE OfService(Tail(s), service)

\* C21: after any sequence of save_account calls the history holds at most
\* the cap of records, and they are the most recently saved accounts in
\* save order: the oldest are the ones dropped.
C21_HistoryCapped ==
  /\ Len(accounts) <= MaxAccounts
  /\ accounts = LastN(LatestSaves(saves), MaxAccounts)

\* the cap was exceeded and the oldest record dropped
C21_Witness ==
  /\ Len(saves) = MaxSaves
  /\ Len(LatestSaves(saves)) > MaxAccounts
  /\ Len(accounts) = MaxAccounts

\* C22: get_account_by_index(i) returns, for 1 <= i <= n, the i-th most
\* recently saved record (i = 1: the record of the last save_account) and
\* no record for i <= 0 or i > n.
C22_IndexMostRecentFirst ==
  op.kind = "get_account_by_index" =>
    LET recent == Reversed(LastN(LatestSaves(saves), MaxAccounts))
    IN /\ (op.index >= 1 /\ op.index <= Len(recent))
            => op.result = recent[op.index]
       /\ (op.index = 1 /\ saves # <<>>) => op.result = saves[Len(saves)]
       /\ (op.index <= 0 \/ op.index > Len(recent)) => op.result = NoAccount

C22_Witness ==
  /\ op.kind = "get_account_by_index"
  /\ op.index = 2
  /\ Len(accounts) = 2
  /\ op.result = accounts[1]
  /\ accounts[1] # accounts[2]

\* C23: `list` numbers the stored accounts (of the service given, if any)
\* newest first from 1, and `use <index>` with the same filter takes the
\* account that `list` shows under that index.
C23_UseTakesListedAccount ==
  LET listed == Reversed(OfService(accounts, op.service))
  IN /\ op.kind = "list" =>
          /\ op.result.raised = "none"
          /\ op.count >= Len(listed) => op.result.value = listed
     /\ op.kind = "use" =>
          /\ op.result.raised = "none"
          /\ (op.index >= 1 /\ op.index <= Len(listed))
               => op.result.value = listed[op.index]

\* C24: in every adapter get_message_by_id fails when the id matches no
\* message of the mailbox, and a message it returns has the requested id.
C24_MessageByIdFound ==
  op.kind = "get_message_by_id" =>
    /\ (\A p \in op.box : MessageId(adapter, p) # op.requested)
         => op.result.raised # "none"
    /\ op.result.raised = "none" => op.result.id = op.requested

\* the message without a provider id is found under its computed id
C24_Witness ==
  /\ op.kind = "get_message_by_id"
  /\ adapter = "xtempmail"
  /\ Cardinality(op.box) = 2
  /\ op.result.raised = "none"
  /\ op.requested # <<"7">>

\* ---------------------------------------------------------------------
\* Link extraction: BaseEmailService.extract_links as handle_message
\* calls it
\* ---------------------------------------------------------------------
\* A URL is a sequence whose first element is its fixed beginning and whose
\* other elements are single characters.  A body is a sequence of URLs (the
\* text between them matches no pattern); the HTML body is the sequence of
\* its href values.
Temi == "https://www.temi.com/editor/t/"
Example == "https://example.com/"
Tails == {<<>>, <<"x">>, <<"x", ".">>, <<".", ")">>}
Urls == {<<b>> \o t : b \in {Temi, Example}, t \in Tails}
Bodies == {<<>>} \cup {<<u>> : u \in Urls} \cup {<<u, v>> : u, v \in Urls}
HtmlBodies == {<<>>} \cup {<<u>> : u \in Urls}
LinkMessages == [text : Bodies, html : HtmlBodies]

\* a pattern is named by the beginning of the URLs it matches ("" is the
\* empty string or None): the built-in pattern matches Temi URLs up to the
\* next white space or quote
Patterns == {"", Temi, Example}
BuiltinPattern == Temi

\* match.rstrip(".,;:!?)")
RECURSIVE Rstrip(_)
Rstrip(link) ==
  IF link # <<>> /\ link[Len(link)] \in {".", ",", ";", ":", "!", "?", ")"}
    THEN Rstrip(SubSeq(link, 1, Len(link) - 1))
    ELSE link

\* cleaned_link.startswith("https://www.temi.com/editor/t/")
StartsWithTemi(link) == link # <<>> /\ link[1] = Temi

\* re.findall(pattern, text, re.IGNORECASE) for a pattern without groups
RECURSIVE FindAll(_, _)
FindAll(pattern, body) ==
  IF body = <<>> THEN <<>>
  ELSE IF Head(body)[1] = pattern
    THEN <<Head(body)>> \o FindAll(pattern, Tail(body))
    ELSE FindAll(pattern, Tail(body))

\* the loop over the matches: clean, keep what starts with the Temi prefix
RECURSIVE CleanMatches(_)
CleanMatches(matches) ==
  IF matches = <<>> THEN <<>>
  ELSE IF StartsWithTemi(Rstrip(Head(matches)))
    THEN <<Rstrip(Head(matches))>> \o CleanMatches(Tail(matches))
    ELSE CleanMatches(Tail(matches))

\* the list `links` before the final list(set(links)): the cleaned matches
\* of the scanned body, then the href links of message.html as they are
CollectedLinks(message, pattern) ==
  LET used == IF pattern = "" THEN BuiltinPattern ELSE pattern
      scanned == IF message.text # <<>> THEN message.text ELSE message.html
  IN IF scanned = <<>> THEN <<>>
     ELSE CleanMatches(FindAll(used, scanned)) \o FindAll(Temi, message.html)

Range(s) == {s[i] : i \in 1..Len(s)}

UniqueListsMut(links) == {links}
\* list(set(links)): the links once each, in any order
UniqueLists(links) ==
  {l \in UNION {[1..n -> Range(links)] : n \in 0..Len(links)} :
     /\ Range(l) = Range(links)
     /\ \A i, j \in 1..Len(l) : i # j => l[i] # l[j]}

\* new_parser.add_argument("--pattern", default=...): args.pattern when the
\* option is absent
ArgsPattern(option) == IF option = "absent" THEN BuiltinPattern ELSE option

\* handle_message: pattern = args.pattern or self.link_pattern, where
\* link_pattern = os.getenv("TMPMAIL_LINK_PATTERN") ("" stands for None)
CallbackPattern(option, env) ==
  IF ArgsPattern(option) # "" THEN ArgsPattern(option) ELSE env

linkFrame == <<coreVars, registry, last_reg, commandVars, closeVars,
               storeVars>>

\* a message reaches the callback of a command line started with or without
\* --pattern, with or without TMPMAIL_LINK_PATTERN in the environment
LinksInit ==
  /\ adapter \in Adapters
  /\ client = FALSE
  /\ FreshAdapter
  /\ registry = ModuleRegistry
  /\ last_reg = <<>>
  /\ op \in [kind : {"received"}, option : Patterns \cup {"absent"},
             env : Patterns, message : LinkMessages]
  /\ cli = "none"
  /\ service_arg = Name("none")
  /\ timeout_arg = FALSE
  /\ created = "none"
  /\ saved = FALSE
  /\ reported = "none"
  /\ pending = "none"
  /\ escaped = FALSE
  /\ cli_stops = 0
  /\ interrupted = FALSE
  /\ closer = "idle"
  /\ closed = FALSE
  /\ open_sessions = 0
  /\ accounts = <<>>
  /\ saves = <<>>

\* handle_message's extract_links call on the received message, made twice
ExtractLinksCall ==
  /\ op.kind = "received"
  /\ \E first, second \in
          UniqueLists(CollectedLinks(op.message,
                                     CallbackPattern(op.option, op.env))) :
       op' = [kind |-> "extract_links", option |-> op.option,
              env |-> op.env, message |-> op.message,
              pattern |-> CallbackPattern(op.option, op.env),
              first |-> first, second |-> second]
  /\ UNCHANGED linkFrame

LinksNext == ExtractLinksCall

LinksSpec == LinksInit /\ [][LinksNext]_vars

\* the body extract_links scans for the pattern
ScannedBody(message) ==
  IF message.text # <<>> THEN message.text ELSE message.html

\* C25: no link returned by extract_links, from the text scan or from the
\* href scan, ends with one of . , ; : ! ? )
C25_LinksRightTrimmed ==
  op.kind = "extract_links" =>
    \A link \in Range(op.first) : Rstrip(link) = link

\* C26: given a pattern, extract_links returns every match of that pattern
\* in the scanned body, right-trimmed, whatever URL shape the pattern
\* describes.
C26_CallerPatternHonoured ==
  (op.kind = "extract_links" /\ op.pattern # "") =>
    \A url \in Range(ScannedBody(op.message)) :
      url[1] = op.pattern => Rstrip(url) \in Range(op.first)

C28_EnvironmentPattern ==
  (op.kind = "extract_links" /\ op.option = "absent") =>
    IF op.env # "" THEN op.pattern = op.env
    ELSE op.pattern \in {"", BuiltinPattern}


\* ---------------------------------------------------------------------
\* GuerrillaMailService: the account operations and the aiohttp session
\* ---------------------------------------------------------------------
\* how the provider answers each request of an operation: set_email_user
\* (renew), get_email_address (create) and get_email_list (list)
Answers == [renew : Provider, create : Provider, list : Provider]

\* create_account: self.session = aiohttp.ClientSession() whatever
\* self.session holds, then the request, whose error is re-raised
GmCreateAccount(answers) ==
  [result |-> CreateAccount(answers.create), opened |-> 1]

GmRenewSessionMut(answers) == GmCreateAccount(answers)
\* _renew_session: the account data updated from the answer, or
\* create_account when the request fails
GmRenewSession(answers) ==
  IF answers.renew = "up" THEN [result |-> "renewed", opened |-> 0]
  ELSE GmCreateAccount(answers)

\* restore_account on an adapter with (c) or without a session: a session
\* is opened when there is none; an exception of the try block, that of a
\* failed create_account included, leads to create_account once more
GmRestoreAccount(c, creds, answers) ==
  LET first == IF c THEN 0 ELSE 1
      body == CASE creds = "missing" -> GmCreateAccount(answers)
                [] creds = "expired" -> GmRenewSession(answers)
                [] OTHER -> IF answers.list = "up"
                              THEN [result |-> "restored", opened |-> 0]
                              ELSE GmCreateAccount(answers)
  IN IF body.result = "raised"
       THEN [result |-> GmCreateAccount(answers).result,
             opened |-> first + body.opened + GmCreateAccount(answers).opened]
       ELSE [result |-> body.result, opened |-> first + body.opened]

\* validate_account opens a session when there is none and never calls
\* create_account
GmValidateAccount(c, creds, answers) ==
  [result |-> ValidateAccount("guerrillamail", c, creds, answers.list),
   opened |-> IF c THEN 0 ELSE 1]

\* get_messages calls restore_account when there is no session; every
\* exception is swallowed
GmGetMessages(c, creds, answers) ==
  [result |-> "messages",
   opened |-> IF c THEN 0 ELSE GmRestoreAccount(c, creds, answers).opened]

gmFrame == <<adapter, stop_monitoring_set, is_listening, known_ids,
             monitor_task, listen_task, recheck_task, procVars, envVars,
             cliVars, histVars, registry, last_reg, commandVars, closer,
             closed, storeVars>>

\* a call of one of the operations; called is the operation's outcome
GmCall(kind, creds, answers, called) ==
  /\ open_sessions < MaxOpen
  /\ op' = [kind |-> kind, creds |-> creds, answers |-> answers,
            had_session |-> client, result |-> called.result,
            opened |-> called.opened]
  /\ client' = TRUE
  /\ open_sessions' = open_sessions + called.opened
  /\ UNCHANGED gmFrame

GmCreateAccountCall(answers) ==
  GmCall("gm_create_account", "missing", answers, GmCreateAccount(answers))

GmRestoreAccountCall(creds, answers) ==
  GmCall("gm_restore_account", creds, answers,
         GmRestoreAccount(client, creds, answers))

GmValidateAccountCall(creds, answers) ==
  GmCall("gm_validate_account", creds, answers,
         GmValidateAccount(client, creds, answers))

GmGetMessagesCall(creds, answers) ==
  GmCall("gm_get_messages", creds, answers,
         GmGetMessages(client, creds, answers))

\* close(): if self.session: await self.session.close(); self.session = None
GmCloseCall ==
  /\ op' = [kind |-> "gm_close", had_session |-> client]
  /\ open_sessions' = IF client THEN open_sessions - 1 ELSE open_sessions
  /\ client' = Release(client)
  /\ UNCHANGED gmFrame

\* a new GuerrillaMailService: self.session = None
GmInit ==
  /\ adapter = "guerrillamail"
  /\ client = FALSE
  /\ FreshAdapter
  /\ NoCommand

GmNext ==
  \/ \E answers \in Answers : GmCreateAccountCall(answers)
  \/ \E creds \in Creds, answers \in Answers :
       GmRestoreAccountCall(creds, answers)
  \/ \E creds \in Creds, answers \in Answers :
       GmValidateAccountCall(creds, answers)
  \/ \E creds \in Creds, answers \in Answers :
       GmGetMessagesCall(creds, answers)
  \/ GmCloseCall

GmSpec == GmInit /\ [][GmNext]_vars

\* C34: GuerrillaMail restore_account with an expired session returns the
\* renewed account data without creating an account when the renewal
\* succeeds, returns create_account's new account when the renewal fails,
\* and raises only when that create_account itself fails.
C34_ExpiredSessionRenewed ==
  (op.kind = "gm_restore_account" /\ op.creds = "expired") =>
    /\ op.answers.renew = "up" =>
         (op.result = "renewed" /\ op.opened = IF op.had_session THEN 0 ELSE 1)
    /\ (op.answers.renew = "down" /\ op.answers.create = "up") =>
         op.result = "created"
    /\ op.result = "raised" =>
         (op.answers.renew = "down" /\ op.answers.create = "down")

\* the renewal failed and restore_account returned a new account
C34_Witness ==
  /\ op.kind = "gm_restore_account"
  /\ op.creds = "expired"
  /\ op.answers.renew = "down"
  /\ op.result = "created"

\* C39: the GuerrillaMail adapter never has more than one aiohttp session
\* open, and none after close().
C39_OneOpenSession ==
  /\ open_sessions <= 1
  /\ op.kind = "gm_close" => open_sessions = 0


\* ---------------------------------------------------------------------
\* AccountStorage: one record per address
\* ---------------------------------------------------------------------
\* C40: after any sequence of save_account calls no two stored records
\* share an address; saving an account again replaces its old record, and
\* the account just saved is the one get_account_by_index(1) returns.
C40_OneRecordPerAddress ==
  /\ \A i, j \in 1..Len(accounts) :
       i # j => accounts[i].address # accounts[j].address
  /\ op.kind = "save_account" =>
       LET latest == saves[Len(saves)]
       IN /\ GetAccountByIndex(accounts, 1) = latest
          /\ \A i \in 1..Len(accounts) :
               accounts[i].address = latest.address => accounts[i] = latest

\* address "a" was saved, then "b", then "a" again with other session data
C40_Witness ==
  /\ op.kind = "save_account"
  /\ Len(saves) = 3
  /\ saves[1] = [address |-> "a", service |-> "xtempmail", data |-> "s1"]
  /\ saves[2].address = "b"
  /\ saves[3] = [address |-> "a", service |-> "xtempmail", data |-> "s2"]
  /\ accounts = <<saves[2], saves[3]>>

====
